---- MODULE Spec2Model ----
(***************************************************************************)
(* A model of the bitcoin-agent repository: the API route                  *)
(* GET /api/tools/bitcoin-transaction (route.ts and the second route file  *)
(* part_002) and the mock service bitcoinChainSignatures (part_000).       *)
(*                                                                         *)
(* Strings are TLA+ strings; a character is a string of length one.        *)
(* A JavaScript number is a record [nan, int, frac]: the value is          *)
(* int + frac / 10^8 with int its floor and 0 <= frac < 10^8, or NaN.      *)
(* IEEE-754 rounding is not modelled: arithmetic is exact on decimals of   *)
(* at most eight fractional digits, and the input strings carry no sign,   *)
(* exponent or whitespace.                                                 *)
(***************************************************************************)
EXTENDS Integers, Sequences, FiniteSets, TLC

VARIABLES
    ACCOUNT_ID,   \* the configured default account of app/config ("" when unset)
    faults,       \* the places where the platform may raise an exception
    pc,           \* "idle" | "done": no call in progress | a call has returned
    entry,        \* the operation that was called
    request,      \* its input: the query parameters, or the arguments
    response,     \* its result: [status, body], or the returned value
    calls,        \* the service functions the handler invoked, in order
    raised,       \* the place where an exception was raised, or "none"
    seen,         \* the direct calls of deriveAddressFromNearAccount so far
    inflight,     \* the invocations of GET running side by side: [pc, request, response]
    frames,       \* their local variables
    page,         \* BitcoinPage: [isWalletConnected, accountId, body]
    storage,      \* localStorage: the saved nearAccountId, "" when there is none
    connector,    \* NearWalletConnector: [effect], its effect is due to run
    form,         \* BitcoinTransaction: its state, or Unmounted
    signer,       \* TransactionSigner: its props and state, or Unmounted
    microtasks,   \* the continuations of resolved promises, in order
    tasks,        \* the pending requests and timers, in the order they started
    notified      \* the calls of onTransactionSigned made by the last event

\* one call at a time: the route, or a service function called directly
apivars == <<ACCOUNT_ID, faults, pc, entry, request, response, calls, raised>>
\* the invocations of GET that run side by side
concvars == <<inflight, frames>>

\* the page in the browser
uivars == <<page, storage, connector, form, signer, microtasks, tasks, notified>>

\* what a call of the API route or of a payload function leaves alone
others == <<seen, concvars, uivars>>

vars == <<apivars, seen, concvars, uivars>>

-----------------------------------------------------------------------------
(* Bounds of the model *)

\* Date.now() is drawn from 1..MaxTime
MaxTime == 2
\* numeric arguments of the rune payload functions are drawn from
\* -MaxNegative..-1, 0..MaxSmall and the values around a byte's limit
MaxSmall == 2
\* the number of requests handled at the same time
MaxHandlers == 2
\* the number of requests and timers the page has pending at a time
MaxTasks == 2

-----------------------------------------------------------------------------
(* Strings and JavaScript numbers *)

Ch(s, i) == SubSeq(s, i, i)

Digits == "0123456789"
HexDigits == "0123456789abcdef"
UpperCase == "ABCDEFGHIJKLMNOPQRSTUVWXYZ"

\* the first position at or after i where c occurs in s, 0 when there is none
RECURSIVE IndexFrom(_, _, _)
IndexFrom(s, c, i) ==
    IF i > Len(s) THEN 0
    ELSE IF Ch(s, i) = c THEN i
    ELSE IndexFrom(s, c, i + 1)

IndexOf(s, c) == IndexFrom(s, c, 1)

\* String.prototype.includes for a one-character needle
includes(s, c) == IndexOf(s, c) # 0

IsDigit(c) == includes(Digits, c)
DigitVal(c) == IndexOf(Digits, c) - 1

\* the length of the longest prefix of s made of decimal digits
RECURSIVE LeadDigits(_)
LeadDigits(s) ==
    IF Len(s) = 0 \/ ~IsDigit(Ch(s, 1)) THEN 0 ELSE 1 + LeadDigits(Tail(s))

\* the value of a string of decimal digits
RECURSIVE DecVal(_)
DecVal(s) ==
    IF Len(s) = 0 THEN 0
    ELSE 10 * DecVal(SubSeq(s, 1, Len(s) - 1)) + DigitVal(Ch(s, Len(s)))

NaN == [nan |-> TRUE, int |-> 0, frac |-> 0]
Num(i) == [nan |-> FALSE, int |-> i, frac |-> 0]

E8 == 100000000

\* s padded on the right with zeros to eight characters, or cut to eight
RECURSIVE PadEnd8(_)
PadEnd8(s) ==
    IF Len(s) >= 8 THEN SubSeq(s, 1, 8) ELSE PadEnd8(s \o "0")

\* parseInt(s), radix 10: the leading digits, NaN when there is none
parseInt(s) ==
    LET n == LeadDigits(s)
    IN  IF n = 0 THEN NaN ELSE Num(DecVal(SubSeq(s, 1, n)))

\* parseFloat(s): digits, then optionally a point and digits
parseFloat(s) ==
    LET n == LeadDigits(s)
        hasPoint == Len(s) > n /\ Ch(s, n + 1) = "."
        rest == IF hasPoint THEN SubSeq(s, n + 2, Len(s)) ELSE ""
        m == LeadDigits(rest)
    IN  IF n = 0 /\ m = 0 THEN NaN
        ELSE [nan |-> FALSE,
              int |-> DecVal(SubSeq(s, 1, n)),
              frac |-> DecVal(PadEnd8(SubSeq(rest, 1, m)))]

\* Math.floor(x)
floor(x) == IF x.nan THEN NaN ELSE Num(x.int)

\* x * 100000000
TimesE8(x) ==
    IF x.nan THEN NaN ELSE Num(x.int * E8 + x.frac)

\* x < 1 (false for NaN)
LessThanOne(x) == ~x.nan /\ x.int < 1

\* the digits of n >= 0 in the given base (2..16)
RECURSIVE DigitsOf(_, _)
DigitsOf(n, base) ==
    IF n < base THEN Ch(HexDigits, n + 1)
    ELSE DigitsOf(n \div base, base) \o Ch(HexDigits, (n % base) + 1)

\* Number.prototype.toString(radix) of an integer-valued number or NaN
toString(x, radix) ==
    IF x.nan THEN "NaN"
    ELSE IF x.int < 0 THEN "-" \o DigitsOf(0 - x.int, radix)
    ELSE DigitsOf(x.int, radix)

\* String.prototype.padStart(n, '0')
RECURSIVE padStart(_, _)
padStart(s, n) == IF Len(s) >= n THEN s ELSE padStart("0" \o s, n)

\* the ASCII code of a character of the model's alphabet
charCodeAt(c) ==
    IF includes(UpperCase, c) THEN 64 + IndexOf(UpperCase, c)
    ELSE IF IsDigit(c) THEN 48 + DigitVal(c)
    ELSE IF c = ":" THEN 58
    ELSE IF c = "_" THEN 95
    ELSE IF c = "-" THEN 45
    ELSE IF c = "." THEN 46
    ELSE 97   \* "a", the one lower-case letter (of "NaN")

\* Buffer.from(s).toString('hex')
RECURSIVE toHex(_)
toHex(s) ==
    IF Len(s) = 0 THEN ""
    ELSE padStart(DigitsOf(charCodeAt(Ch(s, 1)), 16), 2) \o toHex(Tail(s))

-----------------------------------------------------------------------------
(* The service bitcoinChainSignatures (part_000)                            *)
(*                                                                         *)
(* A service function returns Return(value) or Throw(message): its body is *)
(* a try block whose catch logs and throws a new Error with a fixed        *)
(* message.  `fault` says whether the try block raised; Date.now() is the  *)
(* argument `now`.                                                         *)

Return(v) == [threw |-> FALSE, value |-> v]
Throw(message) == [threw |-> TRUE, message |-> message]

\* sha256 of bitcoinjs-lib, kept symbolic: the digest of `data`, in hex
sha256(data) == "sha256(" \o data \o ")"
\* seedHash.slice(0, 20).toString('hex')
slice20(hash) == hash \o "[0,20)"

\* the derivation path without its default value
deriveAddressFromNearAccount_NoDefault(args, fault) ==
    LET nearAccountId == args[1]
        derivationPath == IF Len(args) >= 2 THEN args[2] ELSE "undefined"
        seedHash == sha256(nearAccountId \o ":" \o derivationPath)
    IN  IF fault
        THEN Throw("Failed to derive Bitcoin address from NEAR account")
        ELSE Return([address |-> "bc1q" \o slice20(seedHash),
                     publicKey |-> seedHash])

\* args is <<nearAccountId>> or <<nearAccountId, derivationPath>>
deriveAddressFromNearAccount(args, fault) ==
    LET nearAccountId == args[1]
        derivationPath == IF Len(args) >= 2 THEN args[2] ELSE "bitcoin-1"
        seedData == nearAccountId \o ":" \o derivationPath
        seedHash == sha256(seedData)
    IN  IF fault
        THEN Throw("Failed to derive Bitcoin address from NEAR account")
        ELSE Return([address |-> "bc1q" \o slice20(seedHash),
                     publicKey |-> seedHash])

\* hashString of part_001, kept symbolic: 64 hex characters computed from
\* the characters of `input` alone (a rolling hash that starts at 0)
hashString(input) == "hashString(" \o input \o ")"
\* hash.substring(0, 38)
substring38(hash) == hash \o "[0,38)"

\* deriveAddressFromNearAccount of part_001: no try block, nothing to raise
deriveAddressFromNearAccount_part_001(args) ==
    LET nearAccountId == args[1]
        derivationPath == IF Len(args) >= 2 THEN args[2] ELSE "bitcoin-1"
    IN  Return([address |-> "tb1q" \o substring38(hashString(nearAccountId \o derivationPath)),
                publicKey |-> "04" \o hashString(nearAccountId \o derivationPath \o "pubkey")])

\* amount < 1 ? Math.floor(amount * 100000000) : Math.floor(amount)
transferAmountSatoshis(amount) ==
    IF LessThanOne(amount) THEN floor(TimesE8(amount)) ELSE floor(amount)

createBitcoinTransferTransaction(p, now, fault) ==
    IF fault
    THEN Throw("Failed to create Bitcoin transfer transaction")
    ELSE Return([type |-> "bitcoin_transfer",
                 senderAddress |-> p.senderAddress,
                 receiverAddress |-> p.receiverAddress,
                 amountSatoshis |-> transferAmountSatoshis(p.amount),
                 fee |-> 1000,
                 publicKey |-> p.publicKey,
                 unsignedTxHex |-> "simulated_unsigned_tx_" \o toString(Num(now), 10)])

createEtchRuneTransaction(p, now, fault) ==
    LET decimals == IF "decimals" \in DOMAIN p THEN p.decimals ELSE Num(0)
        mintHeight == IF "mintHeight" \in DOMAIN p THEN p.mintHeight ELSE Num(840000)
        opReturnData == "RUNE_ETCH:" \o p.runeTicker \o ":" \o toString(decimals, 10)
                            \o ":" \o toString(mintHeight, 10)
    IN  IF fault
        THEN Throw("Failed to create Rune etch transaction")
        ELSE Return([type |-> "rune_etch",
                     senderAddress |-> p.senderAddress,
                     receiverAddress |-> p.receiverAddress,
                     amountSatoshis |-> Num(10000),
                     fee |-> 2000,
                     runeTicker |-> p.runeTicker,
                     decimals |-> decimals,
                     mintHeight |-> mintHeight,
                     opReturnHex |-> toHex(opReturnData),
                     publicKey |-> p.publicKey,
                     unsignedTxHex |-> "simulated_unsigned_rune_etch_tx_"
                                          \o toString(Num(now), 10)])

\* Math.floor(amount): the amount taken as satoshis whatever its size
runeTransferAmountSatoshis_Floor(amount) == floor(amount)

\* amount < 1 ? Math.floor(amount * 100000000) : Math.floor(amount)
runeTransferAmountSatoshis(amount) ==
    IF LessThanOne(amount) THEN floor(TimesE8(amount)) ELSE floor(amount)

createTransferRuneTransaction(p, now, fault) ==
    LET opReturnData == "RUNE_TRANSFER:" \o p.runeTicker \o ":" \o toString(p.runeAmount, 10)
    IN  IF fault
        THEN Throw("Failed to create Rune transfer transaction")
        ELSE Return([type |-> "rune_transfer",
                     senderAddress |-> p.senderAddress,
                     receiverAddress |-> p.receiverAddress,
                     amountSatoshis |-> runeTransferAmountSatoshis(p.amount),
                     fee |-> 1500,
                     runeTicker |-> p.runeTicker,
                     runeAmount |-> p.runeAmount,
                     opReturnHex |-> toHex(opReturnData),
                     publicKey |-> p.publicKey,
                     unsignedTxHex |-> "simulated_unsigned_rune_transfer_tx_"
                                          \o toString(Num(now), 10)])

\* the ticker put before the prefix bytes
createRuneEtchPayload_TickerFirst(p) ==
    LET supply == IF "supply" \in DOMAIN p THEN p.supply ELSE Num(21000000)
    IN  toHex(p.ticker) \o "52" \o "45" \o padStart(toString(p.decimals, 16), 2)
            \o padStart(toString(supply, 16), 16)

\* p has ticker and decimals, and optionally supply and mintHeight
createRuneEtchPayload(p) ==
    LET supply == IF "supply" \in DOMAIN p THEN p.supply ELSE Num(21000000)
        runePrefix == "52"
        etching == "45"
        tickerHex == toHex(p.ticker)
        decimalsHex == padStart(toString(p.decimals, 16), 2)
        supplyHex == padStart(toString(supply, 16), 16)
    IN  runePrefix \o etching \o tickerHex \o decimalsHex \o supplyHex

createRuneTransferPayload(p) ==
    LET runePrefix == "52"
        transfer == "54"
        tickerHex == toHex(p.ticker)
        amountHex == padStart(toString(p.amount, 16), 16)
    IN  runePrefix \o transfer \o tickerHex \o amountHex

\* x + y and x - y of whole numbers, NaN when one of them is
Plus(x, y) == IF x.nan \/ y.nan THEN NaN ELSE Num(x.int + y.int)
Minus(x, y) == IF x.nan \/ y.nan THEN NaN ELSE Num(x.int - y.int)

\* Buffer.from(s, 'hex').length: the pairs of hex digits s starts with
RECURSIVE hexByteLength(_)
hexByteLength(s) ==
    IF Len(s) < 2 THEN 0
    ELSE IF includes(HexDigits \o "ABCDEF", Ch(s, 1))
              /\ includes(HexDigits \o "ABCDEF", Ch(s, 2))
    THEN 1 + hexByteLength(SubSeq(s, 3, Len(s)))
    ELSE 0

\* JSON.stringify of a number
stringifyNumber(x) == IF x.nan THEN "null" ELSE toString(x, 10)

\* JSON.stringify of one output
stringifyOutput(o) ==
    "{\"value\":" \o stringifyNumber(o.value) \o ",\"scriptPubKey\":{"
        \o (IF "hex" \in DOMAIN o.scriptPubKey
            THEN "\"hex\":\"" \o o.scriptPubKey.hex
            ELSE "\"address\":\"" \o o.scriptPubKey.address)
        \o "\"}}"

RECURSIVE stringifyOutputs(_)
stringifyOutputs(os) ==
    IF Len(os) = 0 THEN ""
    ELSE stringifyOutput(os[1])
            \o (IF Len(os) > 1 THEN "," ELSE "") \o stringifyOutputs(Tail(os))

\* JSON.stringify(transactionPayload)
stringify(tp) ==
    "{\"inputs\":[{\"txid\":\"" \o tp.inputs[1].txid
        \o "\",\"vout\":" \o stringifyNumber(tp.inputs[1].vout)
        \o ",\"scriptSig\":\"\",\"sequence\":4294967295,\"witness\":[]}],\"outputs\":["
        \o stringifyOutputs(tp.outputs)
        \o "],\"version\":1,\"locktime\":0}"

\* utxo = { txid: 'defaultTxid', vout: 0, value: amountSatoshis + 1000 }
mockUtxo(amountSatoshis) ==
    [txid |-> "defaultTxid", vout |-> Num(0), value |-> Plus(amountSatoshis, Num(1000))]

\* the change without the fee taken off
changeValue_NoFee(utxo, amountSatoshis) == Minus(utxo.value, amountSatoshis)

\* utxo.value - amountSatoshis - 1000
changeValue(utxo, amountSatoshis) ==
    Minus(Minus(utxo.value, amountSatoshis), Num(1000))

\* sequence 0xffffffff is kept as its text: it is above the model's integers
createBitcoinTransactionPayload(params) ==
    LET utxo == IF "utxo" \in DOMAIN params THEN params.utxo
                ELSE mockUtxo(params.amountSatoshis)
        opReturn ==
            IF "opReturnHex" \in DOMAIN params /\ params.opReturnHex # ""
            THEN <<[value |-> Num(0),
                    scriptPubKey |->
                        [hex |-> "6a"
                                   \o toString(Num(hexByteLength(params.opReturnHex)), 16)
                                   \o params.opReturnHex]]>>
            ELSE <<>>
        transactionPayload ==
            [inputs |-> <<[txid |-> utxo.txid,
                           vout |-> utxo.vout,
                           scriptSig |-> "",
                           sequence |-> "0xffffffff",
                           witness |-> <<>>]>>,
             outputs |-> <<[value |-> params.amountSatoshis,
                            scriptPubKey |-> [address |-> params.toAddress]],
                           [value |-> changeValue(utxo, params.amountSatoshis),
                            scriptPubKey |-> [address |-> params.fromAddress]]>>
                            \o opReturn,
             version |-> 1,
             locktime |-> 0]
    IN  [transactionPayload |-> transactionPayload,
         mpcSigningParams |-> [path |-> params.derivationPath,
                               payload |-> hashString(stringify(transactionPayload)),
                               key_version |-> 0]]

\* part_001 holds the same function, line for line
createBitcoinTransactionPayload_part_001(params) ==
    createBitcoinTransactionPayload(params)

-----------------------------------------------------------------------------
(* The route GET /api/tools/bitcoin-transaction (route.ts)                  *)
(*                                                                         *)
(* A query q is a function from the names of the parameters it carries to  *)
(* their string values: searchParams.get(n) is q[n], or null when n is not *)
(* in DOMAIN q.  null and "" are the falsy values.                         *)

Truthy(q, n) == n \in DOMAIN q /\ q[n] # ""

\* searchParams.get(n) || d
OrElse(q, n, d) == IF Truthy(q, n) THEN q[n] ELSE d

\* NextResponse.json(body, { status })
json(body, status) == [status |-> status, body |-> body]

NoFault == [at |-> "none", message |-> ""]

\* the catch block without { status: 500 }
catchGET_NoStatus(message) ==
    json([error |-> IF message # "" THEN message ELSE "Failed to create transaction"], 200)

\* the catch block of GET: error.message || 'Failed to create transaction'
catchGET(message) ==
    json([error |-> IF message # "" THEN message ELSE "Failed to create transaction"], 500)

\* what the handler returns, the service functions it invoked and the place
\* where an exception was raised
Outcome(resp, invoked, at) == [response |-> resp, calls |-> invoked, raised |-> at]

\* nearAccountId: ACCOUNT_ID, whatever the request carries
requestAccountId_ConfigOnly(q) == ACCOUNT_ID

\* searchParams.get('accountId') || ACCOUNT_ID
requestAccountId(q) == OrElse(q, "accountId", ACCOUNT_ID)

\* if (action === null): an empty action passes
missingAction_NullOnly(q) == "action" \notin DOMAIN q

\* the action check moved below the receiver check
missingAction_AfterReceiver(q) == ~Truthy(q, "action") /\ Truthy(q, "receiver")

\* if (!action)
missingAction(q) == ~Truthy(q, "action")

\* if (receiver === null): an empty receiver passes
missingReceiver_NullOnly(q) == "receiver" \notin DOMAIN q

\* if (!receiver)
missingReceiver(q) == ~Truthy(q, "receiver")

\* if (amount === null): an empty amount passes
transferError_NullOnly(q) ==
    IF "amount" \notin DOMAIN q THEN "Amount is required for transfer" ELSE ""

\* case 'transfer': if (!amount)
transferError(q) ==
    IF ~Truthy(q, "amount") THEN "Amount is required for transfer" ELSE ""

\* if (!runeTicker || !runeMintHeight): the mint height is required too
etchRuneError_MintHeight(q) ==
    IF ~Truthy(q, "runeTicker") \/ ~Truthy(q, "runeMintHeight")
    THEN "Rune ticker is required for etch_rune" ELSE ""

\* if (runeTicker === null): an empty ticker passes
etchRuneError_NullOnly(q) ==
    IF "runeTicker" \notin DOMAIN q THEN "Rune ticker is required for etch_rune" ELSE ""

\* case 'etch_rune': if (!runeTicker)
etchRuneError(q) ==
    IF ~Truthy(q, "runeTicker") THEN "Rune ticker is required for etch_rune" ELSE ""

\* case 'transfer_rune': if (!amount || !runeTicker || !runeAmount)
transferRuneError(q) ==
    IF ~Truthy(q, "amount") \/ ~Truthy(q, "runeTicker") \/ ~Truthy(q, "runeAmount")
    THEN "Amount, rune ticker, and rune amount are required for transfer_rune"
    ELSE ""

\* a switch without its default, whose last case takes every other action
actionError_LastCase(q) ==
    IF q.action = "transfer" THEN transferError(q)
    ELSE IF q.action = "etch_rune" THEN etchRuneError(q)
    ELSE transferRuneError(q)

\* the 400 message of the switch on action, "" when the action's fields are there
actionError(q) ==
    IF q.action = "transfer" THEN transferError(q)
    ELSE IF q.action = "etch_rune" THEN etchRuneError(q)
    ELSE IF q.action = "transfer_rune" THEN transferRuneError(q)
    ELSE "Unsupported action: " \o q.action

\* runeDecimals ? parseInt(runeDecimals) : 0
etchDecimals(q) ==
    IF Truthy(q, "runeDecimals") THEN parseInt(q.runeDecimals) ELSE Num(0)

\* parseInt(runeMintHeight || '0')
etchMintHeight_Zero(q) == parseInt(OrElse(q, "runeMintHeight", "0"))

\* runeMintHeight ? parseInt(runeMintHeight) : 840000
etchMintHeight(q) ==
    IF Truthy(q, "runeMintHeight") THEN parseInt(q.runeMintHeight) ELSE Num(840000)

GETResult(q, now, fault) ==
    LET derivationPath == OrElse(q, "derivationPath", "bitcoin-1")
        accountId == requestAccountId(q)
        derived == deriveAddressFromNearAccount(<<accountId, derivationPath>>,
                                                fault.at = "derive")
        senderAddress == derived.value.address
        publicKey == derived.value.publicKey
        created ==
            IF q.action = "transfer"
            THEN createBitcoinTransferTransaction(
                     [senderAddress |-> senderAddress,
                      receiverAddress |-> q.receiver,
                      amount |-> parseFloat(q.amount),
                      publicKey |-> publicKey], now, fault.at = "create")
            ELSE IF q.action = "etch_rune"
            THEN createEtchRuneTransaction(
                     [senderAddress |-> senderAddress,
                      receiverAddress |-> q.receiver,
                      runeTicker |-> q.runeTicker,
                      decimals |-> etchDecimals(q),
                      mintHeight |-> etchMintHeight(q),
                      publicKey |-> publicKey], now, fault.at = "create")
            ELSE createTransferRuneTransaction(
                     [senderAddress |-> senderAddress,
                      receiverAddress |-> q.receiver,
                      amount |-> parseFloat(q.amount),
                      runeTicker |-> q.runeTicker,
                      runeAmount |-> parseInt(q.runeAmount),
                      publicKey |-> publicKey], now, fault.at = "create")
        constructor ==
            IF q.action = "transfer" THEN "createBitcoinTransferTransaction"
            ELSE IF q.action = "etch_rune" THEN "createEtchRuneTransaction"
            ELSE "createTransferRuneTransaction"
    IN  IF fault.at = "params"
        THEN Outcome(catchGET(fault.message), <<>>, "params")
        ELSE IF accountId = ""
        THEN Outcome(json([error |-> "NEAR account ID is required"], 400), <<>>, "none")
        ELSE IF missingAction(q)
        THEN Outcome(json([error |-> "Action is required"], 400), <<>>, "none")
        ELSE IF missingReceiver(q)
        THEN Outcome(json([error |-> "Receiver address is required"], 400), <<>>, "none")
        ELSE IF derived.threw
        THEN Outcome(catchGET(derived.message),
                     <<"deriveAddressFromNearAccount">>, "derive")
        ELSE IF actionError(q) # ""
        THEN Outcome(json([error |-> actionError(q)], 400),
                     <<"deriveAddressFromNearAccount">>, "none")
        ELSE IF created.threw
        THEN Outcome(catchGET(created.message),
                     <<"deriveAddressFromNearAccount", constructor>>, "create")
        ELSE Outcome(json([transactionPayload |-> created.value], 200),
                     <<"deriveAddressFromNearAccount", constructor>>, "none")

-----------------------------------------------------------------------------
(* The second route file (part_002): the handler that builds the payload   *)
(* itself, without the service.                                            *)

\* amount.includes('.') ? Math.floor(parseFloat(amount) * 100000000) : parseInt(amount)
parseAmount(amount) ==
    IF includes(amount, ".") THEN floor(TimesE8(parseFloat(amount)))
    ELSE parseInt(amount)

generateRuneEtchOpReturn(ticker, decimals, mintHeight) ==
    LET runePrefix == "52"
        tickerHex == toHex(ticker)
        decimalsHex == padStart(toString(decimals, 16), 2)
        heightHex == padStart(toString(mintHeight, 16), 8)
    IN  runePrefix \o tickerHex \o decimalsHex \o heightHex

generateRuneTransferOpReturn(ticker, amount) ==
    LET runePrefix == "52"
        transferPrefix == "54"
        tickerHex == toHex(ticker)
        amountHex == padStart(toString(amount, 16), 16)
    IN  runePrefix \o transferPrefix \o tickerHex \o amountHex

\* { ...a, ...b } for records a and b
Spread(a, b) ==
    [n \in DOMAIN a \cup DOMAIN b |-> IF n \in DOMAIN b THEN b[n] ELSE a[n]]

GET002Result(q, fault) ==
    LET action == OrElse(q, "action", "transfer")
        derivationPath == OrElse(q, "derivationPath", "bitcoin-1")
        runeDecimals == OrElse(q, "runeDecimals", "0")
        base == [nearAccountId |-> ACCOUNT_ID,
                 derivationPath |-> derivationPath,
                 receiver |-> q.receiver]
        transactionPayload ==
            IF action = "transfer"
            THEN Spread(base, [action |-> "transfer",
                               amountSatoshis |-> parseAmount(OrElse(q, "amount", "0"))])
            ELSE IF action = "etch_rune"
            THEN Spread(base, [action |-> "etch_rune",
                               amountSatoshis |-> Num(10000),
                               opReturnHex |-> generateRuneEtchOpReturn(
                                   OrElse(q, "runeTicker", ""),
                                   parseInt(runeDecimals),
                                   parseInt(OrElse(q, "runeMintHeight", "0"))),
                               runeTicker |-> q.runeTicker,
                               runeDecimals |-> runeDecimals])
            ELSE IF action = "transfer_rune"
            THEN Spread(base, [action |-> "transfer_rune",
                               amountSatoshis |-> parseAmount(OrElse(q, "amount", "0")),
                               opReturnHex |-> generateRuneTransferOpReturn(
                                   OrElse(q, "runeTicker", ""),
                                   parseAmount(OrElse(q, "runeAmount", "0"))),
                               runeTicker |-> q.runeTicker,
                               runeAmount |-> q.runeAmount])
            ELSE base
        failed == json([error |-> "Failed to generate Bitcoin transaction payload"], 500)
    IN  IF fault.at = "params"
        THEN Outcome(failed, <<>>, "params")
        ELSE IF ~Truthy(q, "receiver")
        THEN Outcome(json([error |-> "Receiver address is required"], 400), <<>>, "none")
        ELSE IF ~Truthy(q, "amount") /\ (action = "transfer" \/ action = "transfer_rune")
        THEN Outcome(json([error |-> "Amount is required for transfers"], 400),
                     <<>>, "none")
        ELSE IF action = "etch_rune"
                  /\ (~Truthy(q, "runeTicker") \/ ~Truthy(q, "runeMintHeight"))
        THEN Outcome(json([error |-> "Rune ticker and mint height are required for etching"],
                          400), <<>>, "none")
        ELSE IF action = "transfer_rune"
                  /\ (~Truthy(q, "runeTicker") \/ ~Truthy(q, "runeAmount"))
        THEN Outcome(json([error |-> "Rune ticker and amount are required for rune transfers"],
                          400), <<>>, "none")
        ELSE IF fault.at = "create"
        THEN Outcome(failed, <<>>, "create")
        ELSE Outcome(json([transactionPayload |-> transactionPayload,
                           message |-> "Bitcoin " \o action
                                          \o " transaction payload created successfully",
                           instructions |-> "To sign and broadcast this transaction, use the NEAR Chain Signatures service with the provided derivation path."],
                          200), <<>>, "none")

-----------------------------------------------------------------------------
(* Inputs *)

\* marks a parameter the query does not carry (only while enumerating)
Absent == "<absent>"

Params == {"action", "receiver", "derivationPath", "amount", "accountId",
           "runeTicker", "runeAmount", "runeDecimals", "runeMintHeight"}

ParamValues ==
    [action |-> {"", "transfer", "etch_rune", "transfer_rune", "mint"},
     receiver |-> {"", "bc1qreceiver"},
     derivationPath |-> {"bitcoin-2"},
     amount |-> {"", "0.5", "1.5", "10000", "abc"},
     accountId |-> {"alice.near"},
     runeTicker |-> {"", "AB"},
     runeAmount |-> {"1000"},
     runeDecimals |-> {"2"},
     runeMintHeight |-> {"850000"}]

Query(c) == [n \in {m \in Params : c[m] # Absent} |-> c[n]]

Requests ==
    {Query(c) : c \in [action : ParamValues.action \cup {Absent},
                       receiver : ParamValues.receiver \cup {Absent},
                       derivationPath : ParamValues.derivationPath \cup {Absent},
                       amount : ParamValues.amount \cup {Absent},
                       accountId : ParamValues.accountId \cup {Absent},
                       runeTicker : ParamValues.runeTicker \cup {Absent},
                       runeAmount : ParamValues.runeAmount \cup {Absent},
                       runeDecimals : ParamValues.runeDecimals \cup {Absent},
                       runeMintHeight : ParamValues.runeMintHeight \cup {Absent}]}

Times == 1..MaxTime

\* the places of a handler where the platform or a library may raise
FaultPoints == {"params", "derive", "create"}

\* the exceptions that may be raised in this behaviour, and none
FaultChoices ==
    {NoFault}
        \cup {[at |-> "params", message |-> m] : m \in IF "params" \in faults
                                                      THEN {"", "Invalid URL"} ELSE {}}
        \cup {[at |-> a, message |-> ""] : a \in faults \ {"params"}}

Tickers == {"", "A", "AB", "Z9"}

\* the numbers given to the rune payload functions
Numbers ==
    {Num(i) : i \in (0 - MaxSmall)..MaxSmall \cup {15, 16, 255, 256, 21000000}}
        \cup {NaN}

-----------------------------------------------------------------------------
(* The page in the browser: BitcoinPage (part_003) renders                 *)
(* NearWalletConnector (part_004) and, below it, BitcoinTransaction        *)
(* (part_005), which renders TransactionSigner (part_007).                 *)
(*                                                                         *)
(* A component that is not rendered has no state; when it is rendered      *)
(* again it starts from its initial state.  A state setter called for a    *)
(* component that is gone does nothing: a request or timer that            *)
(* BitcoinTransaction and its signer have pending when BitcoinTransaction  *)
(* goes completes without effect, and is dropped with it.                  *)

\* null, where an object may stand
Null == [null |-> TRUE]

\* a component that is not rendered
Unmounted == [mounted |-> FALSE]

\* the useState initial values of BitcoinTransaction; amount, runeAmount,
\* runeDecimals and runeMintHeight are left at their initial values
FreshForm ==
    [mounted |-> TRUE,
     action |-> "transfer",
     receiver |-> "",
     amount |-> "0.0001",
     derivationPath |-> "bitcoin-1",
     runeTicker |-> "",
     runeAmount |-> "1000",
     runeDecimals |-> "0",
     runeMintHeight |-> "840000",
     bitcoinAddress |-> "",
     bitcoinPublicKey |-> "",
     isLoading |-> FALSE,
     transactionPayload |-> Null,
     error |-> "",
     signedTransaction |-> Null]

\* the props and the useState initial values of TransactionSigner
FreshSigner ==
    [mounted |-> TRUE,
     transactionPayload |-> Null,
     nearAccountId |-> "",
     onTransactionSigned |-> "none",
     isLoading |-> FALSE,
     error |-> "",
     signedTransaction |-> Null,
     txHash |-> ""]

\* BitcoinTransaction rendered whether the wallet is connected or not
pageBody_Always(isWalletConnected) == "BitcoinTransaction"

\* isWalletConnected ? <BitcoinTransaction nearAccountId={accountId} /> : the notice
pageBody(isWalletConnected) ==
    IF isWalletConnected THEN "BitcoinTransaction" ELSE "Wallet not connected"

\* const accountId = nearAccountId || ACCOUNT_ID
formAccountId(pg) == IF pg.accountId # "" THEN pg.accountId ELSE ACCOUNT_ID

\* the address derived with the initial derivation path, whatever the path is
derivation_InitialPath(fn, accountId, derivationPath) ==
    [fn |-> fn,
     value |-> deriveAddressFromNearAccount(<<accountId, "bitcoin-1">>, FALSE).value]

\* the continuation of `await deriveAddressFromNearAccount(...)` in the
\* effect function fn, with the value the promise resolves to
derivation(fn, accountId, derivationPath) ==
    [fn |-> fn,
     value |-> deriveAddressFromNearAccount(<<accountId, derivationPath>>, FALSE).value]

\* the two effects on [accountId, derivationPath] run up to their await
addressEffects(accountId, derivationPath) ==
    IF accountId = "" THEN <<>>
    ELSE <<derivation("fetchAddress", accountId, derivationPath),
           derivation("updateAddress", accountId, derivationPath)>>

\* the signer shown whether there is a payload or not
signerShown_NoPayload(pg, f) ==
    /\ f.mounted
    /\ f.signedTransaction = Null
    /\ formAccountId(pg) # ""

\* transactionPayload && !signedTransaction && accountId
signerShown(pg, f) ==
    /\ f.mounted
    /\ f.transactionPayload # Null
    /\ f.signedTransaction = Null
    /\ formAccountId(pg) # ""

\* React renders the page after an event: components come and go with the
\* state of their parents, a BitcoinTransaction that appears runs its two
\* effects, and the setters of a signer that went are dead
Commit(pg, f, s, tk, mt) ==
    LET show == pageBody(pg.isWalletConnected) = "BitcoinTransaction"
        appears == show /\ ~f.mounted
        f1 == IF ~show THEN Unmounted
              ELSE IF appears
              THEN [FreshForm EXCEPT !.isLoading = formAccountId(pg) # ""]
              ELSE f
        s1 == IF signerShown(pg, f1)
              THEN [(IF s.mounted THEN s ELSE FreshSigner) EXCEPT
                        !.transactionPayload = f1.transactionPayload,
                        !.nearAccountId = formAccountId(pg),
                        !.onTransactionSigned = "handleTransactionSigned"]
              ELSE Unmounted
    IN  [form |-> f1,
         signer |-> s1,
         tasks |-> IF f.mounted /\ f1.mounted
                   THEN [i \in DOMAIN tk |->
                           [tk[i] EXCEPT !.signerAlive = @ /\ s.mounted /\ s1.mounted]]
                   ELSE <<>>,
         microtasks |-> IF appears
                        THEN mt \o addressEffects(formAccountId(pg), FreshForm.derivationPath)
                        ELSE mt]

\* the accounts the user may type into the prompt; "" is a cancelled prompt
Accounts == {"alice.near", "bob.near"}

\* the page as it is first rendered, with `saved` in localStorage
PageAtMount(saved) ==
    LET pg == [isWalletConnected |-> FALSE, accountId |-> ""]
        c == Commit(pg, Unmounted, Unmounted, <<>>, <<>>)
    IN  /\ page = pg
        /\ storage = saved
        /\ connector = [effect |-> TRUE]
        /\ form = c.form
        /\ signer = c.signer
        /\ tasks = c.tasks
        /\ microtasks = c.microtasks
        /\ notified = <<>>

-----------------------------------------------------------------------------
(* The state machine: a request arrives, one of the two route files        *)
(* handles it, the response is delivered; or a service function is called  *)
(* directly.                                                               *)

None == <<>>

\* the invocations of GET that may run at the same time
Handlers == 1..MaxHandlers
\* an invocation slot with no request in it
Free == [pc |-> "free", request |-> None, response |-> None]

\* the values of ACCOUNT_ID exported by app/config: unset, or an account
ConfiguredAccounts == {"", "agent.near"}

Init ==
    /\ ACCOUNT_ID \in ConfiguredAccounts
    /\ faults = {}
    /\ pc = "idle"
    /\ entry = ""
    /\ request = None
    /\ response = None
    /\ calls = <<>>
    /\ raised = "none"
    /\ seen = {}
    /\ inflight = [i \in Handlers |-> Free]
    /\ frames = [i \in Handlers |-> None]
    /\ PageAtMount("")

InitFault ==
    /\ ACCOUNT_ID \in ConfiguredAccounts
    /\ faults = FaultPoints
    /\ pc = "idle"
    /\ entry = ""
    /\ request = None
    /\ response = None
    /\ calls = <<>>
    /\ raised = "none"
    /\ seen = {}
    /\ inflight = [i \in Handlers |-> Free]
    /\ frames = [i \in Handlers |-> None]
    /\ PageAtMount("")

\* a GET request with query q reaches the server
Arrive ==
    /\ pc = "idle"
    /\ pc' = "pending"
    /\ \E q \in Requests : request' = q
    /\ UNCHANGED <<ACCOUNT_ID, faults, entry, response, calls, raised>>
    /\ UNCHANGED others

\* route.ts handles the pending request
GET ==
    /\ pc = "pending"
    /\ \E now \in Times, fault \in FaultChoices :
          LET r == GETResult(request, now, fault)
          IN  /\ response' = r.response
              /\ calls' = r.calls
              /\ raised' = r.raised
    /\ pc' = "done"
    /\ entry' = "GET"
    /\ UNCHANGED <<ACCOUNT_ID, faults, request>>
    /\ UNCHANGED others

\* part_002 handles the pending request
GET_part_002 ==
    /\ pc = "pending"
    /\ \E fault \in FaultChoices :
          LET r == GET002Result(request, fault)
          IN  /\ response' = r.response
              /\ calls' = r.calls
              /\ raised' = r.raised
    /\ pc' = "done"
    /\ entry' = "GET_part_002"
    /\ UNCHANGED <<ACCOUNT_ID, faults, request>>
    /\ UNCHANGED others

\* a direct call of createRuneEtchPayload
CallCreateRuneEtchPayload ==
    /\ pc = "idle"
    /\ \E t \in Tickers, d \in Numbers, withSupply \in BOOLEAN, s \in Numbers :
          LET p == IF withSupply
                   THEN [ticker |-> t, decimals |-> d, supply |-> s]
                   ELSE [ticker |-> t, decimals |-> d]
          IN  /\ withSupply \/ s = NaN
              /\ request' = p
              /\ response' = createRuneEtchPayload(p)
    /\ pc' = "done"
    /\ entry' = "createRuneEtchPayload"
    /\ UNCHANGED <<ACCOUNT_ID, faults, calls, raised>>
    /\ UNCHANGED others

\* a direct call of createRuneTransferPayload
CallCreateRuneTransferPayload ==
    /\ pc = "idle"
    /\ \E t \in Tickers, a \in Numbers :
          LET p == [ticker |-> t, amount |-> a]
          IN  /\ request' = p
              /\ response' = createRuneTransferPayload(p)
    /\ pc' = "done"
    /\ entry' = "createRuneTransferPayload"
    /\ UNCHANGED <<ACCOUNT_ID, faults, calls, raised>>
    /\ UNCHANGED others

\* the arguments of the direct calls of deriveAddressFromNearAccount:
\* with the derivation path and without it
DeriveArgs ==
    {<<a>> : a \in {"alice.near", "bob.near"}}
        \cup {<<a, "bitcoin-1">> : a \in {"alice.near", "bob.near"}}
        \cup {<<"alice.near", "bitcoin-2">>}

\* a direct call of deriveAddressFromNearAccount (part_000)
CallDeriveAddress ==
    /\ pc = "idle"
    /\ \E args \in DeriveArgs :
          LET r == deriveAddressFromNearAccount(args, FALSE)
          IN  /\ request' = args
              /\ response' = r.value
              /\ seen' = seen \cup {[impl |-> "part_000", args |-> args, result |-> r.value]}
    /\ pc' = "done"
    /\ entry' = "deriveAddressFromNearAccount"
    /\ UNCHANGED <<ACCOUNT_ID, faults, calls, raised>>
    /\ UNCHANGED <<concvars, uivars>>

\* a direct call of deriveAddressFromNearAccount (part_001)
CallDeriveAddress_part_001 ==
    /\ pc = "idle"
    /\ \E args \in DeriveArgs :
          LET r == deriveAddressFromNearAccount_part_001(args)
          IN  /\ request' = args
              /\ response' = r.value
              /\ seen' = seen \cup {[impl |-> "part_001", args |-> args, result |-> r.value]}
    /\ pc' = "done"
    /\ entry' = "deriveAddressFromNearAccount_part_001"
    /\ UNCHANGED <<ACCOUNT_ID, faults, calls, raised>>
    /\ UNCHANGED <<concvars, uivars>>

\* the number int + frac / 10^8
Dec(int, frac) == [nan |-> FALSE, int |-> int, frac |-> frac]

\* the amounts given to the two transfer constructors: 0, 0.00000001, 0.5,
\* 0.99999999, 1, 1.5, a small whole number, 10000, and, outside the
\* non-negative finite numbers, -0.5, -1 and NaN
Amounts ==
    {Num(0), Dec(0, 1), Dec(0, 50000000), Dec(0, 99999999), Num(1),
     Dec(1, 50000000), Num(MaxSmall), Num(10000), Dec(0 - 1, 50000000),
     Num(0 - 1), NaN}

\* a direct call of createBitcoinTransferTransaction
CallCreateBitcoinTransferTransaction ==
    /\ pc = "idle"
    /\ \E a \in Amounts, now \in Times, account \in Accounts :
          LET sender == deriveAddressFromNearAccount(<<account>>, FALSE).value
              p == [senderAddress |-> sender.address,
                    receiverAddress |-> "bc1qreceiver",
                    amount |-> a,
                    publicKey |-> sender.publicKey]
          IN  /\ request' = p
              /\ response' = createBitcoinTransferTransaction(p, now, FALSE).value
    /\ pc' = "done"
    /\ entry' = "createBitcoinTransferTransaction"
    /\ UNCHANGED <<ACCOUNT_ID, faults, calls, raised>>
    /\ UNCHANGED others

\* a direct call of createTransferRuneTransaction
CallCreateTransferRuneTransaction ==
    /\ pc = "idle"
    /\ \E a \in Amounts, now \in Times, account \in Accounts, t \in {"A", "AB"} :
          LET sender == deriveAddressFromNearAccount(<<account>>, FALSE).value
              p == [senderAddress |-> sender.address,
                    receiverAddress |-> "bc1qreceiver",
                    amount |-> a,
                    runeTicker |-> t,
                    runeAmount |-> Num(1000),
                    publicKey |-> sender.publicKey]
          IN  /\ request' = p
              /\ response' = createTransferRuneTransaction(p, now, FALSE).value
    /\ pc' = "done"
    /\ entry' = "createTransferRuneTransaction"
    /\ UNCHANGED <<ACCOUNT_ID, faults, calls, raised>>
    /\ UNCHANGED others

\* the amounts in satoshis given to createBitcoinTransactionPayload
SatoshiAmounts == {Num(0), Num(MaxSmall), Num(546), Num(10000)}

\* the input it is given: none (the mock one is taken), or one of these values
Utxos ==
    {[txid |-> "txid1", vout |-> Num(v), value |-> Num(x)] :
        v \in {0, 1}, x \in {0, 1000, 1546, 20000}}

\* the parameters of a call of createBitcoinTransactionPayload
PayloadParams ==
    LET base ==
            {[fromAddress |-> "bc1qsender", fromPublicKey |-> "02abcdef",
              toAddress |-> "bc1qreceiver", amountSatoshis |-> a,
              derivationPath |-> d] :
                a \in SatoshiAmounts, d \in {"bitcoin-1", "bitcoin-2"}}
        withReturn ==
            base \cup {Spread(b, [opReturnHex |-> h]) :
                         b \in base, h \in {"", "5245", "52544142000003e8"}}
    IN  withReturn \cup {Spread(b, [utxo |-> u]) : b \in withReturn, u \in Utxos}

\* a direct call of createBitcoinTransactionPayload (part_000)
CallCreateBitcoinTransactionPayload ==
    /\ pc = "idle"
    /\ \E params \in PayloadParams :
          /\ request' = params
          /\ response' = createBitcoinTransactionPayload(params)
    /\ pc' = "done"
    /\ entry' = "createBitcoinTransactionPayload"
    /\ UNCHANGED <<ACCOUNT_ID, faults, calls, raised>>
    /\ UNCHANGED others

\* a direct call of createBitcoinTransactionPayload (part_001)
CallCreateBitcoinTransactionPayload_part_001 ==
    /\ pc = "idle"
    /\ \E params \in PayloadParams :
          /\ request' = params
          /\ response' = createBitcoinTransactionPayload_part_001(params)
    /\ pc' = "done"
    /\ entry' = "createBitcoinTransactionPayload_part_001"
    /\ UNCHANGED <<ACCOUNT_ID, faults, calls, raised>>
    /\ UNCHANGED others

\* the result has been handed to the caller; nothing of the call is kept
Deliver ==
    /\ pc = "done"
    /\ pc' = "idle"
    /\ entry' = ""
    /\ request' = None
    /\ response' = None
    /\ calls' = <<>>
    /\ raised' = "none"
    /\ UNCHANGED <<ACCOUNT_ID, faults>>
    /\ UNCHANGED others

Next ==
    \/ Arrive
    \/ GET
    \/ GET_part_002
    \/ CallCreateRuneEtchPayload
    \/ CallCreateRuneTransferPayload
    \/ Deliver

Spec == Init /\ [][Next]_vars

SpecFault == InitFault /\ [][Next]_vars

\* direct calls of the service: address derivations in any order, with calls
\* of a payload function between them
NextDerive ==
    \/ CallDeriveAddress
    \/ CallDeriveAddress_part_001
    \/ CallCreateRuneTransferPayload
    \/ Deliver

SpecDerive == Init /\ [][NextDerive]_vars

\* direct calls of the two transfer constructors of the service
NextAmount ==
    \/ CallCreateBitcoinTransferTransaction
    \/ CallCreateTransferRuneTransaction
    \/ Deliver

SpecAmount == Init /\ [][NextAmount]_vars

\* direct calls of createBitcoinTransactionPayload, of either service file
NextPayload ==
    \/ CallCreateBitcoinTransactionPayload
    \/ CallCreateBitcoinTransactionPayload_part_001
    \/ Deliver

SpecPayload == Init /\ [][NextPayload]_vars

-----------------------------------------------------------------------------
(* Requests handled side by side.  GET of route.ts is an async function:   *)
(* it runs to its first await (the address derivation), resumes, runs to   *)
(* its second await (the transaction constructor), resumes and returns.    *)
(* Another invocation may run between two of these steps.                  *)

\* the variables of GET kept at module level: one frame for every invocation
frame_Module(i) == 1

\* the variables of GET are consts of the function body: invocation i has
\* its own frame
frame(i) == i

\* the requests sent side by side
ConcRequests ==
    {[action |-> "transfer", receiver |-> "bc1qreceiver", amount |-> "0.5",
      accountId |-> "alice.near"],
     [action |-> "etch_rune", receiver |-> "bc1qreceiver", runeTicker |-> "AB"],
     [action |-> "transfer_rune", receiver |-> "bc1qreceiver", amount |-> "1.5",
      runeTicker |-> "AB", runeAmount |-> "1000", derivationPath |-> "bitcoin-2",
      accountId |-> "alice.near"],
     [action |-> "transfer", receiver |-> "bc1qreceiver"],
     [action |-> "transfer", amount |-> "0.5", accountId |-> "alice.near"],
     [action |-> "mint", receiver |-> "bc1qreceiver", accountId |-> "alice.near"]}

\* the three early returns of GET, "" when the request passes them
earlyError(q) ==
    IF requestAccountId(q) = "" THEN "NEAR account ID is required"
    ELSE IF missingAction(q) THEN "Action is required"
    ELSE IF missingReceiver(q) THEN "Receiver address is required"
    ELSE ""

\* the constructor call of the switch on action
construct(q, senderAddress, publicKey, now) ==
    IF q.action = "transfer"
    THEN createBitcoinTransferTransaction(
             [senderAddress |-> senderAddress,
              receiverAddress |-> q.receiver,
              amount |-> parseFloat(q.amount),
              publicKey |-> publicKey], now, FALSE)
    ELSE IF q.action = "etch_rune"
    THEN createEtchRuneTransaction(
             [senderAddress |-> senderAddress,
              receiverAddress |-> q.receiver,
              runeTicker |-> q.runeTicker,
              decimals |-> etchDecimals(q),
              mintHeight |-> etchMintHeight(q),
              publicKey |-> publicKey], now, FALSE)
    ELSE createTransferRuneTransaction(
             [senderAddress |-> senderAddress,
              receiverAddress |-> q.receiver,
              amount |-> parseFloat(q.amount),
              runeTicker |-> q.runeTicker,
              runeAmount |-> parseInt(q.runeAmount),
              publicKey |-> publicKey], now, FALSE)

\* invocation i starts: it reads the parameters, makes the three early
\* checks and calls deriveAddressFromNearAccount, which it awaits
StartGET(i) ==
    /\ inflight[i].pc = "free"
    /\ \E q \in ConcRequests :
          IF earlyError(q) # ""
          THEN /\ inflight' = [inflight EXCEPT ![i] =
                                  [pc |-> "done", request |-> q,
                                   response |-> json([error |-> earlyError(q)], 400)]]
               /\ UNCHANGED frames
          ELSE /\ inflight' = [inflight EXCEPT ![i] =
                                  [pc |-> "awaitDerive", request |-> q, response |-> None]]
               /\ frames' = [frames EXCEPT ![frame(i)] =
                                [params |-> q,
                                 derived |-> deriveAddressFromNearAccount(
                                                 <<requestAccountId(q),
                                                   OrElse(q, "derivationPath", "bitcoin-1")>>,
                                                 FALSE).value]]
    /\ UNCHANGED <<apivars, seen, uivars>>

\* the derivation has resolved: the switch on action returns 400, or calls
\* the constructor, which reads the clock and which the invocation awaits
AfterDerive(i) ==
    /\ inflight[i].pc = "awaitDerive"
    /\ LET f == frames[frame(i)]
       IN  IF actionError(f.params) # ""
           THEN /\ inflight' = [inflight EXCEPT ![i].pc = "done",
                                                ![i].response =
                                                    json([error |-> actionError(f.params)], 400)]
                /\ UNCHANGED frames
           ELSE /\ inflight' = [inflight EXCEPT ![i].pc = "awaitCreate"]
                /\ \E now \in Times :
                      frames' = [frames EXCEPT ![frame(i)] =
                                   [params |-> f.params,
                                    derived |-> f.derived,
                                    transactionPayload |->
                                        construct(f.params, f.derived.address,
                                                  f.derived.publicKey, now).value]]
    /\ UNCHANGED <<apivars, seen, uivars>>

\* the constructor has resolved: the invocation returns the payload
Respond(i) ==
    /\ inflight[i].pc = "awaitCreate"
    /\ inflight' = [inflight EXCEPT ![i].pc = "done",
                                    ![i].response =
                                        json([transactionPayload |->
                                                  frames[frame(i)].transactionPayload], 200)]
    /\ UNCHANGED frames
    /\ UNCHANGED <<apivars, seen, uivars>>

\* the response has been sent; the invocation and its variables are gone
Finish(i) ==
    /\ inflight[i].pc = "done"
    /\ inflight' = [inflight EXCEPT ![i] = Free]
    /\ frames' = [frames EXCEPT ![frame(i)] = None]
    /\ UNCHANGED <<apivars, seen, uivars>>

NextConc ==
    \E i \in Handlers :
        \/ StartGET(i)
        \/ AfterDerive(i)
        \/ Respond(i)
        \/ Finish(i)

SpecConc == Init /\ [][NextConc]_vars

-----------------------------------------------------------------------------
(* The page in the browser: events                                         *)
(*                                                                         *)
(* A click or a keystroke is handled to its end, the page is rendered, the *)
(* effects that are due run, and the continuations of the promises that    *)
(* are already resolved (the address derivations) run in order, all before *)
(* the next event.  A fetch and a timer complete as events of their own.   *)

\* handleConnect without its setAccountId
handleConnect_FlagOnly(connectedAccountId) ==
    [isWalletConnected |-> TRUE, accountId |-> ""]

\* handleConnect of BitcoinPage
handleConnect(connectedAccountId) ==
    [isWalletConnected |-> TRUE, accountId |-> connectedAccountId]

\* handleDisconnect of BitcoinPage
handleDisconnect == [isWalletConnected |-> FALSE, accountId |-> ""]

\* nothing is left to run before the next event
Settled == ~connector.effect /\ microtasks = <<>>

\* the pending tasks without the i-th, which completes
Without(tk, i) == SubSeq(tk, 1, i - 1) \o SubSeq(tk, i + 1, Len(tk))

\* the positions a pending task may have
Slots == 1..MaxTasks

\* the page is rendered with pg, f and s, and the pending work tk and mt
Rendered(pg, f, s, tk, mt) ==
    LET c == Commit(pg, f, s, tk, mt)
    IN  /\ page' = pg
        /\ form' = c.form
        /\ signer' = c.signer
        /\ tasks' = c.tasks
        /\ microtasks' = c.microtasks

\* the effect that never connects
restores_Never(savedAccountId, isConnected) == FALSE

\* if (savedAccountId && !isConnected)
restores(savedAccountId, isConnected) == savedAccountId # "" /\ ~isConnected

\* connectWallet without its localStorage.setItem
storedByConnect_Kept(saved, userAccountId) == saved

\* localStorage.setItem('nearAccountId', userAccountId)
storedByConnect(saved, userAccountId) == userAccountId

\* disconnectWallet without its localStorage.removeItem
storedByDisconnect_Kept(saved) == saved

\* localStorage.removeItem('nearAccountId')
storedByDisconnect(saved) == ""

\* the effect of NearWalletConnector, after the first render and after
\* every render of BitcoinPage (onConnect is a new function each time)
ConnectorEffect ==
    /\ connector.effect
    /\ IF restores(storage, page.isWalletConnected)
       THEN /\ Rendered(handleConnect(storage), form, signer, tasks, microtasks)
            /\ connector' = [effect |-> TRUE]
       ELSE /\ connector' = [effect |-> FALSE]
            /\ UNCHANGED <<page, form, signer, tasks, microtasks>>
    /\ notified' = <<>>
    /\ UNCHANGED storage
    /\ UNCHANGED <<apivars, seen, concvars>>

\* connectWallet: the prompt returns the text typed, "" when cancelled
ConnectWallet ==
    /\ Settled
    /\ ~page.isWalletConnected
    /\ \E userAccountId \in Accounts \cup {""} :
          IF userAccountId # ""
          THEN /\ Rendered(handleConnect(userAccountId), form, signer, tasks, microtasks)
               /\ storage' = storedByConnect(storage, userAccountId)
               /\ connector' = [effect |-> TRUE]
          ELSE UNCHANGED <<page, form, signer, tasks, microtasks, storage, connector>>
    /\ notified' = <<>>
    /\ UNCHANGED <<apivars, seen, concvars>>

\* disconnectWallet
DisconnectWallet ==
    /\ Settled
    /\ page.isWalletConnected
    /\ Rendered(handleDisconnect, form, signer, tasks, microtasks)
    /\ storage' = storedByDisconnect(storage)
    /\ connector' = [effect |-> TRUE]
    /\ notified' = <<>>
    /\ UNCHANGED <<apivars, seen, concvars>>

\* the continuation of fetchAddress or updateAddress after its await
RunMicrotask ==
    /\ ~connector.effect
    /\ microtasks # <<>>
    /\ LET m == Head(microtasks)
           f == IF ~form.mounted THEN form
                ELSE IF m.fn = "fetchAddress"
                THEN [form EXCEPT !.bitcoinAddress = m.value.address,
                                  !.bitcoinPublicKey = m.value.publicKey,
                                  !.isLoading = FALSE]
                ELSE [form EXCEPT !.bitcoinAddress = m.value.address,
                                  !.bitcoinPublicKey = m.value.publicKey]
       IN  Rendered(page, f, signer, tasks, Tail(microtasks))
    /\ notified' = <<>>
    /\ UNCHANGED <<storage, connector>>
    /\ UNCHANGED <<apivars, seen, concvars>>

\* the inputs of the form are rendered while there is no signed transaction
FormShown == form.mounted /\ form.signedTransaction = Null

\* the select of the action type
SetAction ==
    /\ Settled
    /\ FormShown
    /\ \E a \in {"transfer", "etch_rune"} :
          Rendered(page, [form EXCEPT !.action = a], signer, tasks, microtasks)
    /\ notified' = <<>>
    /\ UNCHANGED <<storage, connector>>
    /\ UNCHANGED <<apivars, seen, concvars>>

\* the input of the receiver address
SetReceiver ==
    /\ Settled
    /\ FormShown
    /\ \E r \in {"", "bc1qreceiver"} :
          Rendered(page, [form EXCEPT !.receiver = r], signer, tasks, microtasks)
    /\ notified' = <<>>
    /\ UNCHANGED <<storage, connector>>
    /\ UNCHANGED <<apivars, seen, concvars>>

\* the input of the derivation path: a new value makes the two effects run
SetDerivationPath ==
    /\ Settled
    /\ FormShown
    /\ \E d \in {"bitcoin-1", "bitcoin-2"} :
          IF d = form.derivationPath
          THEN UNCHANGED <<page, form, signer, tasks, microtasks>>
          ELSE Rendered(page,
                        [form EXCEPT !.derivationPath = d,
                                     !.isLoading = formAccountId(page) # "" \/ @],
                        signer, tasks,
                        microtasks \o addressEffects(formAccountId(page), d))
    /\ notified' = <<>>
    /\ UNCHANGED <<storage, connector>>
    /\ UNCHANGED <<apivars, seen, concvars>>

\* the query string createTransaction builds from the form
createUrl(f, accountId) ==
    LET names == {"action", "receiver", "derivationPath"}
                    \cup (IF accountId # "" THEN {"accountId"} ELSE {})
                    \cup (IF f.action \in {"transfer", "transfer_rune"}
                          THEN {"amount"} ELSE {})
                    \cup (IF f.action = "etch_rune"
                          THEN {"runeTicker", "runeDecimals", "runeMintHeight"} ELSE {})
                    \cup (IF f.action = "transfer_rune"
                          THEN {"runeTicker", "runeAmount"} ELSE {})
    IN  [n \in names |-> IF n = "accountId" THEN accountId ELSE f[n]]

\* the Create Transaction button: disabled={isLoading || !receiver}
CreateEnabled == FormShown /\ ~(form.isLoading \/ form.receiver = "")

\* createTransaction up to `await fetch(url)`
CreateTransaction ==
    /\ Settled
    /\ CreateEnabled
    /\ Len(tasks) < MaxTasks
    /\ Rendered(page,
                [form EXCEPT !.isLoading = TRUE,
                             !.error = "",
                             !.transactionPayload = Null,
                             !.signedTransaction = Null],
                signer,
                Append(tasks, [kind |-> "createTransaction",
                               url |-> createUrl(form, formAccountId(page)),
                               signerAlive |-> FALSE]),
                microtasks)
    /\ notified' = <<>>
    /\ UNCHANGED <<storage, connector>>
    /\ UNCHANGED <<apivars, seen, concvars>>

\* the state of the form after its request has been answered with resp, or
\* after fetch has thrown (resp = Null)
afterFetch(f, resp) ==
    IF resp = Null
    THEN [f EXCEPT !.error = "Failed to fetch", !.isLoading = FALSE]
    ELSE IF resp.status \in 200..299
    THEN [f EXCEPT !.transactionPayload = resp.body.transactionPayload,
                   !.isLoading = FALSE]
    ELSE [f EXCEPT !.error = IF "error" \in DOMAIN resp.body /\ resp.body.error # ""
                             THEN resp.body.error
                             ELSE "Failed to create transaction",
                   !.isLoading = FALSE]

\* the request of slot i is answered by the route, or fetch throws
CreateCompletes(i) ==
    /\ Settled
    /\ i <= Len(tasks)
    /\ tasks[i].kind = "createTransaction"
    /\ \E now \in Times, answered \in BOOLEAN :
          LET resp == IF answered THEN GETResult(tasks[i].url, now, NoFault).response
                      ELSE Null
          IN  /\ Rendered(page,
                          afterFetch(form, resp), signer, Without(tasks, i), microtasks)
    /\ notified' = <<>>
    /\ UNCHANGED <<storage, connector>>
    /\ UNCHANGED <<apivars, seen, concvars>>

\* resetForm, the button shown with a signed transaction
ResetForm ==
    /\ Settled
    /\ form.mounted
    /\ form.signedTransaction # Null
    /\ Rendered(page,
                [form EXCEPT !.transactionPayload = Null,
                             !.signedTransaction = Null,
                             !.error = ""],
                signer, tasks, microtasks)
    /\ notified' = <<>>
    /\ UNCHANGED <<storage, connector>>
    /\ UNCHANGED <<apivars, seen, concvars>>

\* the own properties of an object, none for null
Props(x) == IF x = Null THEN <<>> ELSE x

\* the digits Math.random().toString(16).substr(2, 8) may give
RandomHex == {"8", "1a2b3c4d"}

\* signTransaction up to its await: the state of the signer
signTransaction(s) ==
    [s EXCEPT !.isLoading = TRUE,
              !.error = "",
              !.signedTransaction = Null,
              !.txHash = ""]

\* the timer a click on the button starts, with what its closure holds
signing(s) ==
    [kind |-> "signTransaction",
     transactionPayload |-> s.transactionPayload,
     nearAccountId |-> s.nearAccountId,
     onTransactionSigned |-> s.onTransactionSigned,
     signerAlive |-> TRUE]

\* the signed transaction with the configured account in place of the prop
signedTx_ConfigAccount(t, now) ==
    Spread(Props(t.transactionPayload),
           [signature |-> "simulated_near_signature_" \o toString(Num(now), 10),
            status |-> "signed",
            nearAccountId |-> ACCOUNT_ID])

\* { ...transactionPayload, signature, status: 'signed', nearAccountId }
signedTx(t, now) ==
    Spread(Props(t.transactionPayload),
           [signature |-> "simulated_near_signature_" \o toString(Num(now), 10),
            status |-> "signed",
            nearAccountId |-> t.nearAccountId])

\* signTransaction without its setSignedTransaction(signedTx)
afterSigning_HashOnly(s, signedTransaction, simulatedTxHash) ==
    [s EXCEPT !.txHash = simulatedTxHash,
              !.isLoading = FALSE]

\* the state of the signer after the await of signTransaction
afterSigning(s, signedTransaction, simulatedTxHash) ==
    [s EXCEPT !.signedTransaction = signedTransaction,
              !.txHash = simulatedTxHash,
              !.isLoading = FALSE]

\* the button of the signer: rendered with a payload,
\* disabled={isLoading || !transactionPayload}
SignEnabled ==
    /\ signer.mounted
    /\ signer.transactionPayload # Null
    /\ ~signer.isLoading

\* a click on Sign with NEAR Wallet
SignTransaction ==
    /\ Settled
    /\ SignEnabled
    /\ Len(tasks) < MaxTasks
    /\ Rendered(page, form, signTransaction(signer),
                Append(tasks, signing(signer)),
                microtasks)
    /\ notified' = <<>>
    /\ UNCHANGED <<storage, connector>>
    /\ UNCHANGED <<apivars, seen, concvars>>

\* the timer of slot i fires: the rest of signTransaction
SignCompletes(i) ==
    /\ Settled
    /\ i <= Len(tasks)
    /\ tasks[i].kind = "signTransaction"
    /\ \E now \in Times, h1 \in RandomHex, h2 \in RandomHex :
          LET t == tasks[i]
              signedTransaction == signedTx(t, now)
              called == t.onTransactionSigned # "none"
          IN  /\ Rendered(page,
                          IF called
                          THEN [form EXCEPT !.signedTransaction = signedTransaction]
                          ELSE form,
                          IF t.signerAlive
                          THEN afterSigning(signer, signedTransaction, h1 \o h2)
                          ELSE signer,
                          Without(tasks, i), microtasks)
              /\ notified' = IF called THEN <<signedTransaction>> ELSE <<>>
    /\ UNCHANGED <<storage, connector>>
    /\ UNCHANGED <<apivars, seen, concvars>>

\* what localStorage may hold when the page is opened
SavedAccounts == {"", "alice.near"}

InitUI ==
    /\ ACCOUNT_ID = "agent.near"
    /\ faults = {}
    /\ pc = "idle"
    /\ entry = ""
    /\ request = None
    /\ response = None
    /\ calls = <<>>
    /\ raised = "none"
    /\ seen = {}
    /\ inflight = [i \in Handlers |-> Free]
    /\ frames = [i \in Handlers |-> None]
    /\ \E saved \in SavedAccounts : PageAtMount(saved)

NextUI ==
    \/ ConnectorEffect
    \/ ConnectWallet
    \/ DisconnectWallet
    \/ RunMicrotask
    \/ SetAction
    \/ SetReceiver
    \/ SetDerivationPath
    \/ CreateTransaction
    \/ \E i \in Slots : CreateCompletes(i)
    \/ ResetForm
    \/ SignTransaction
    \/ \E i \in Slots : SignCompletes(i)

SpecUI == InitUI /\ [][NextUI]_vars

\* React runs the pending effects of a render before anything else happens
SpecUILive == SpecUI /\ WF_vars(ConnectorEffect)

-----------------------------------------------------------------------------
(* TransactionSigner on its own, rendered by a parent that gives it a      *)
(* payload, an account and, or not, a callback, and that keeps it rendered *)

\* the payloads the parent may pass: none, and two the route returns
SignerPayloads ==
    {Null}
        \cup {GETResult(q, 1, NoFault).response.body.transactionPayload :
                 q \in {[action |-> "transfer", receiver |-> "bc1qreceiver",
                         amount |-> "0.5", accountId |-> "alice.near"],
                        [action |-> "etch_rune", receiver |-> "bc1qreceiver",
                         runeTicker |-> "AB", accountId |-> "bob.near"]}}

InitSigner ==
    /\ ACCOUNT_ID = "agent.near"
    /\ faults = {}
    /\ pc = "idle"
    /\ entry = ""
    /\ request = None
    /\ response = None
    /\ calls = <<>>
    /\ raised = "none"
    /\ seen = {}
    /\ inflight = [i \in Handlers |-> Free]
    /\ frames = [i \in Handlers |-> None]
    /\ page = [isWalletConnected |-> FALSE, accountId |-> ""]
    /\ storage = ""
    /\ connector = [effect |-> FALSE]
    /\ form = Unmounted
    /\ microtasks = <<>>
    /\ tasks = <<>>
    /\ notified = <<>>
    /\ \E p \in SignerPayloads, a \in Accounts,
          cb \in {"none", "onTransactionSigned"} :
          signer = [FreshSigner EXCEPT !.transactionPayload = p,
                                       !.nearAccountId = a,
                                       !.onTransactionSigned = cb]

\* the parent passes another payload
SignerProps ==
    /\ signer.mounted
    /\ \E p \in SignerPayloads : signer' = [signer EXCEPT !.transactionPayload = p]
    /\ notified' = <<>>
    /\ UNCHANGED <<page, storage, connector, form, microtasks, tasks>>
    /\ UNCHANGED <<apivars, seen, concvars>>

\* a click on Sign with NEAR Wallet
SignerClick ==
    /\ SignEnabled
    /\ Len(tasks) < MaxTasks
    /\ signer' = signTransaction(signer)
    /\ tasks' = Append(tasks, signing(signer))
    /\ notified' = <<>>
    /\ UNCHANGED <<page, storage, connector, form, microtasks>>
    /\ UNCHANGED <<apivars, seen, concvars>>

\* the timer fires: the rest of signTransaction
SignerTimer(i) ==
    /\ i <= Len(tasks)
    /\ tasks[i].kind = "signTransaction"
    /\ \E now \in Times, h1 \in RandomHex, h2 \in RandomHex :
          LET signedTransaction == signedTx(tasks[i], now)
          IN  /\ signer' = afterSigning(signer, signedTransaction, h1 \o h2)
              /\ notified' = IF tasks[i].onTransactionSigned # "none"
                             THEN <<signedTransaction>> ELSE <<>>
    /\ tasks' = Without(tasks, i)
    /\ UNCHANGED <<page, storage, connector, form, microtasks>>
    /\ UNCHANGED <<apivars, seen, concvars>>

NextSigner ==
    \/ SignerProps
    \/ SignerClick
    \/ \E i \in Slots : SignerTimer(i)

SpecSigner == InitSigner /\ [][NextSigner]_vars

-----------------------------------------------------------------------------
(* Properties *)

\* one of the two route files has answered the request held in `request`
Handled == pc = "done" /\ entry \in {"GET", "GET_part_002"}
\* route.ts, the file at app/api/tools/bitcoin-transaction, has answered it
HandledByRoute == pc = "done" /\ entry = "GET"

HasError == "error" \in DOMAIN response.body
HasPayload == "transactionPayload" \in DOMAIN response.body

Rejected400 == response.status = 400 /\ HasError /\ ~HasPayload

\* the request carries an account ID or a default account is configured
AccountAvailable == Truthy(request, "accountId") \/ ACCOUNT_ID # ""

Constructors == {"createBitcoinTransferTransaction", "createEtchRuneTransaction",
                 "createTransferRuneTransaction"}

ConstructorInvoked == \E i \in 1..Len(calls) : calls[i] \in Constructors

(* C1: a request without `receiver`, or with an empty one, is answered 400 *)
(* with an error body and no transactionPayload, whatever its action and   *)
(* its other parameters are (both route files).                            *)
C1_ReceiverRequired ==
    (Handled /\ ~Truthy(request, "receiver")) => Rejected400

C1_Witness ==
    /\ HandledByRoute
    /\ "receiver" \notin DOMAIN request
    /\ Truthy(request, "action") /\ request.action = "transfer_rune"
    /\ Truthy(request, "amount") /\ AccountAvailable
    /\ Rejected400
    /\ response.body.error = "Receiver address is required"

(* C2: a transfer or transfer_rune request without `amount`, or with an    *)
(* empty one, is answered 400 with an error body and no transactionPayload *)
(* (both route files).                                                     *)
C2_AmountRequired ==
    (/\ Handled
     /\ Truthy(request, "action")
     /\ request.action \in {"transfer", "transfer_rune"}
     /\ ~Truthy(request, "amount")) => Rejected400

C2_Witness ==
    /\ HandledByRoute
    /\ Truthy(request, "action") /\ request.action = "transfer"
    /\ Truthy(request, "receiver")
    /\ "amount" \notin DOMAIN request
    /\ Rejected400
    /\ response.body.error = "Amount is required for transfer"

(* C3: an etch_rune request without runeTicker, and a transfer_rune        *)
(* request without runeTicker or without runeAmount, is answered 400 with  *)
(* an error body, and no transaction constructor of the service has been   *)
(* invoked for it (both route files).                                      *)
C3_RuneFieldsRequired ==
    (/\ Handled
     /\ Truthy(request, "action")
     /\ \/ request.action = "etch_rune" /\ ~Truthy(request, "runeTicker")
        \/ request.action = "transfer_rune"
              /\ (~Truthy(request, "runeTicker") \/ ~Truthy(request, "runeAmount")))
        => (Rejected400 /\ ~ConstructorInvoked)

C3_Witness ==
    /\ HandledByRoute
    /\ Truthy(request, "action") /\ request.action = "transfer_rune"
    /\ Truthy(request, "receiver") /\ Truthy(request, "amount")
    /\ Truthy(request, "runeTicker") /\ "runeAmount" \notin DOMAIN request
    /\ Rejected400
    /\ calls = <<"deriveAddressFromNearAccount">>

\* the request has everything its action needs
ValidRequest ==
    /\ AccountAvailable
    /\ Truthy(request, "receiver")
    /\ Truthy(request, "action")
    /\ \/ request.action = "transfer" /\ Truthy(request, "amount")
       \/ request.action = "etch_rune" /\ Truthy(request, "runeTicker")
       \/ request.action = "transfer_rune" /\ Truthy(request, "amount")
             /\ Truthy(request, "runeTicker") /\ Truthy(request, "runeAmount")

(* C4: a request with an account ID available, a non-empty receiver, one   *)
(* of the three actions and that action's required fields is answered 200  *)
(* by route.ts, with a transactionPayload and no error; every response of  *)
(* either route file has exactly one of the statuses 200, 400 and 500, a   *)
(* payload exactly when it is 200 and an error exactly when it is not.     *)
C4_ValidRequestSucceeds ==
    /\ (HandledByRoute /\ ValidRequest)
          => (response.status = 200 /\ HasPayload /\ ~HasError)
    /\ Handled => /\ response.status \in {200, 400, 500}
                  /\ (response.status = 200) <=> HasPayload
                  /\ (response.status \in {400, 500}) <=> HasError

C4_Witness ==
    /\ HandledByRoute /\ ValidRequest
    /\ request.action = "transfer_rune"
    /\ response.status = 200
    /\ response.body.transactionPayload.type = "rune_transfer"
    /\ response.body.transactionPayload.runeAmount = Num(1000)

\* the request, with action=transfer added or put in place of its action
WithTransfer(q) ==
    [n \in DOMAIN q \cup {"action"} |-> IF n = "action" THEN "transfer" ELSE q[n]]

(* C5 as stated: a request that omits `action` is processed exactly as the *)
(* same request with action=transfer.                                      *)
C5_ActionDefaultsToTransfer ==
    (Handled /\ "action" \notin DOMAIN request) =>
        IF entry = "GET"
        THEN \E now \in Times :
                 response = GETResult(WithTransfer(request), now, NoFault).response
        ELSE response = GET002Result(WithTransfer(request), NoFault).response

(* C5, amended: route.ts has no default action: it answers a request       *)
(* without `action` (absent or empty) with 400, and with the error "Action *)
(* is required" when an account ID is available; only the route file       *)
(* part_002 processes such a request as the same request with              *)
(* action=transfer.                                                        *)
C5_ActionRequiredByRoute ==
    /\ (HandledByRoute /\ ~Truthy(request, "action")) => Rejected400
    /\ (HandledByRoute /\ ~Truthy(request, "action") /\ AccountAvailable)
          => response.body.error = "Action is required"
    /\ (pc = "done" /\ entry = "GET_part_002" /\ ~Truthy(request, "action"))
          => response = GET002Result(WithTransfer(request), NoFault).response

C5_Witness ==
    /\ HandledByRoute
    /\ "action" \notin DOMAIN request
    /\ AccountAvailable
    /\ Truthy(request, "receiver") /\ Truthy(request, "amount")
    /\ response.status = 400
    /\ response.body.error = "Action is required"

(* C6 as stated: the amountSatoshis of a transfer or transfer_rune payload *)
(* is floor(value * 100,000,000) when the amount string contains a decimal *)
(* point and the integer value unchanged when it contains none.            *)
C6_AmountByTextualForm ==
    (/\ Handled
     /\ response.status = 200
     /\ OrElse(request, "action", "transfer") \in {"transfer", "transfer_rune"})
        => response.body.transactionPayload.amountSatoshis =
              IF includes(request.amount, ".")
              THEN floor(TimesE8(parseFloat(request.amount)))
              ELSE parseInt(request.amount)

\* an etch_rune request with receiver and runeTicker that leaves out
\* runeDecimals or runeMintHeight
EtchWithDefaults ==
    /\ HandledByRoute
    /\ Truthy(request, "action") /\ request.action = "etch_rune"
    /\ Truthy(request, "receiver") /\ Truthy(request, "runeTicker")
    /\ ("runeDecimals" \notin DOMAIN request \/ "runeMintHeight" \notin DOMAIN request)

EtchDefaultsApplied ==
    /\ response.status = 200
    /\ HasPayload
    /\ "runeDecimals" \notin DOMAIN request
          => response.body.transactionPayload.decimals = Num(0)
    /\ "runeMintHeight" \notin DOMAIN request
          => response.body.transactionPayload.mintHeight = Num(840000)

(* C7 as stated: an etch_rune request that supplies receiver and           *)
(* runeTicker but omits runeDecimals and/or runeMintHeight succeeds (200)  *)
(* and its payload has decimals 0 and mint height 840000 for the omitted   *)
(* values.                                                                 *)
C7_EtchDefaults == EtchWithDefaults => EtchDefaultsApplied

(* C7, amended: the same, for a request that has an account ID available   *)
(* (the accountId parameter or the configured ACCOUNT_ID); without one the *)
(* request is answered 400.                                                *)
C7_EtchDefaultsWithAccount ==
    /\ (EtchWithDefaults /\ AccountAvailable) => EtchDefaultsApplied
    /\ (EtchWithDefaults /\ ~AccountAvailable) => Rejected400

C7_Witness ==
    /\ EtchWithDefaults /\ AccountAvailable
    /\ request.runeTicker = "AB"
    /\ "runeDecimals" \notin DOMAIN request
    /\ "runeMintHeight" \notin DOMAIN request
    /\ response.status = 200
    /\ response.body.transactionPayload.decimals = Num(0)
    /\ response.body.transactionPayload.mintHeight = Num(840000)
    /\ response.body.transactionPayload.opReturnHex
          = "52554e455f455443483a41423a303a383430303030"

(* C8: the sender address and the public key of a payload of route.ts are  *)
(* derived from the request's accountId and derivation path when the       *)
(* request carries an accountId, and from the configured ACCOUNT_ID when   *)
(* it does not; a request without accountId is not rejected for lacking    *)
(* it when ACCOUNT_ID is configured.                                       *)
C8_AccountIdOptional ==
    LET account == IF Truthy(request, "accountId") THEN request.accountId
                   ELSE ACCOUNT_ID
        path == IF Truthy(request, "derivationPath") THEN request.derivationPath
                ELSE "bitcoin-1"
        seedHash == sha256(account \o ":" \o path)
    IN  /\ (HandledByRoute /\ response.status = 200)
              => /\ response.body.transactionPayload.senderAddress
                        = "bc1q" \o slice20(seedHash)
                 /\ response.body.transactionPayload.publicKey = seedHash
        /\ (HandledByRoute /\ ~Truthy(request, "accountId") /\ ACCOUNT_ID # "")
              => /\ HasError => response.body.error # "NEAR account ID is required"
                 /\ ValidRequest => response.status = 200

C8_Witness ==
    /\ HandledByRoute
    /\ ACCOUNT_ID = "agent.near"
    /\ Truthy(request, "accountId") /\ request.accountId = "alice.near"
    /\ Truthy(request, "derivationPath")
    /\ response.status = 200
    /\ response.body.transactionPayload.senderAddress
          = "bc1qsha256(alice.near:bitcoin-2)[0,20)"
    /\ response.body.transactionPayload.publicKey = "sha256(alice.near:bitcoin-2)"

(* C9: when an exception is raised while a request is handled (reading the *)
(* parameters, deriving the address, or in a transaction constructor), the *)
(* handler answers 500 with an error body; a response never carries a      *)
(* transactionPayload together with an error.                              *)
C9_ExceptionsCaught ==
    Handled => /\ raised # "none" => /\ response.status = 500
                                     /\ HasError
                                     /\ ~HasPayload
               /\ response.status \in {200, 400, 500}
               /\ ~(HasPayload /\ HasError)

C9_Witness ==
    /\ HandledByRoute
    /\ raised = "create"
    /\ request.action = "etch_rune"
    /\ calls = <<"deriveAddressFromNearAccount", "createEtchRuneTransaction">>
    /\ response.status = 500
    /\ response.body.error = "Failed to create Rune etch transaction"

(* C10: the string returned by createRuneEtchPayload starts with 5245 and  *)
(* the string returned by createRuneTransferPayload starts with 5254, for  *)
(* every ticker, decimals, supply and amount.                              *)
C10_RunePayloadPrefix ==
    /\ (pc = "done" /\ entry = "createRuneEtchPayload")
          => SubSeq(response, 1, 4) = "5245"
    /\ (pc = "done" /\ entry = "createRuneTransferPayload")
          => SubSeq(response, 1, 4) = "5254"

C10_Witness ==
    /\ pc = "done" /\ entry = "createRuneEtchPayload"
    /\ request.ticker = "AB"
    /\ request.decimals = Num(256)
    /\ "supply" \notin DOMAIN request
    /\ response = "524541421000000000001406f40"

\* s is made of the sixteen lower-case hex digits only
IsHexString(s) == \A i \in 1..Len(s) : includes(HexDigits, Ch(s, i))

\* a direct call of one of the two rune payload functions has returned
PayloadReturned ==
    pc = "done" /\ entry \in {"createRuneEtchPayload", "createRuneTransferPayload"}

(* C11: createRuneEtchPayload and createRuneTransferPayload always return  *)
(* a string of even length made of hex digits only, for every ticker and   *)
(* every integer decimals, supply and amount, decimals of 256 or more and  *)
(* negative values included.                                               *)
C11_EvenLengthHex ==
    PayloadReturned => Len(response) % 2 = 0 /\ IsHexString(response)

\* the same for the arguments every field of the payload has room for:
\* decimals in one byte, supply and amount non-negative
C11_EvenLengthHexInRange ==
    (/\ PayloadReturned
     /\ \A f \in DOMAIN request \ {"ticker"} : ~request[f].nan /\ request[f].int >= 0
     /\ "decimals" \in DOMAIN request => request.decimals.int < 256)
        => Len(response) % 2 = 0 /\ IsHexString(response)

\* the derivation path a call is made with
PathOf(args) == IF Len(args) >= 2 THEN args[2] ELSE "bitcoin-1"

SansTimestamp(resp) ==
    IF "transactionPayload" \in DOMAIN resp.body
    THEN [resp EXCEPT !.body.transactionPayload.unsignedTxHex = ""]
    ELSE resp

\* the response to q when it is the only request handled
Alone(q) == GETResult(q, 1, NoFault).response

(* C13: when several GET requests are handled at the same time, in any     *)
(* interleaving of their steps, the status and the body of each response,  *)
(* the timestamp in unsignedTxHex apart, are those of the same request     *)
(* handled alone: they depend on its own parameters and ACCOUNT_ID only.   *)
C13_NoInterference ==
    \A i \in Handlers :
        inflight[i].pc = "done"
            => SansTimestamp(inflight[i].response) = SansTimestamp(Alone(inflight[i].request))

\* two invocations with different accounts and paths were in flight
\* together; the first has answered while the second awaits its constructor
C13_Witness ==
    /\ ACCOUNT_ID = "agent.near"
    /\ inflight[1].pc = "done"
    /\ inflight[1].request.action = "etch_rune"
    /\ inflight[1].response.status = 200
    /\ inflight[1].response.body.transactionPayload.senderAddress
          = "bc1qsha256(agent.near:bitcoin-1)[0,20)"
    /\ inflight[2].pc = "awaitCreate"
    /\ inflight[2].request.action = "transfer_rune"
    /\ frames[2].derived.address = "bc1qsha256(alice.near:bitcoin-2)[0,20)"

(* C14: on the Bitcoin page BitcoinTransaction is rendered if and only if  *)
(* isWalletConnected is true, so a transaction can be created or signed    *)
(* only while the wallet is connected; when the wallet is not connected    *)
(* (after a disconnect too) the 'Wallet not connected' notice stands in    *)
(* its place.                                                              *)
C14_FormOnlyWhileConnected ==
    /\ form.mounted <=> page.isWalletConnected
    /\ ~page.isWalletConnected =>
          /\ pageBody(page.isWalletConnected) = "Wallet not connected"
          /\ ~signer.mounted
          /\ ~CreateEnabled
          /\ ~SignEnabled

\* bob.near connected by the prompt; a payload has been created and
\* the signer is shown
C14_Witness ==
    /\ page.isWalletConnected
    /\ page.accountId = "bob.near"
    /\ form.mounted
    /\ form.transactionPayload # Null
    /\ SignEnabled

\* this step starts a signing
SignStarts ==
    /\ Len(tasks') = Len(tasks) + 1
    /\ tasks'[Len(tasks')].kind = "signTransaction"

\* this step is the successful answer to a create request, and the form
\* holds the payload of the answer after it
CreateSucceeds ==
    \E i \in DOMAIN tasks, now \in Times :
        /\ tasks[i].kind = "createTransaction"
        /\ Len(tasks') = Len(tasks) - 1
        /\ LET r == GETResult(tasks[i].url, now, NoFault).response
           IN  /\ r.status = 200
               /\ form'.transactionPayload = r.body.transactionPayload

\* this step completes a signing that was started with a payload, and stx
\* is the transaction it signed
SignSucceeds(stx) ==
    \E i \in DOMAIN tasks, now \in Times :
        /\ tasks[i].kind = "signTransaction"
        /\ tasks[i].transactionPayload # Null
        /\ Len(tasks') = Len(tasks) - 1
        /\ stx = signedTx(tasks[i], now)

(* C15: the flow is connect, create payload, sign, signed transaction.     *)
(* The signer is rendered only while the wallet is connected, the form     *)
(* holds a payload and no signed transaction, and an account ID is known;  *)
(* a signing starts only from the enabled button of the signer, with the   *)
(* payload the form holds; the form comes to hold a payload only by the    *)
(* successful answer to a create request, and a signed transaction only by *)
(* the completion of a signing started with a payload.                     *)
C15_SignAfterCreate ==
    /\ [](signer.mounted =>
             /\ page.isWalletConnected
             /\ form.mounted
             /\ form.transactionPayload # Null
             /\ form.signedTransaction = Null
             /\ formAccountId(page) # ""
             /\ signer.transactionPayload = form.transactionPayload)
    /\ [][/\ SignStarts =>
               /\ SignEnabled
               /\ tasks'[Len(tasks')].transactionPayload = form.transactionPayload
          /\ (/\ form'.mounted
              /\ form'.transactionPayload # Null
              /\ ~(form.mounted /\ form.transactionPayload = form'.transactionPayload))
                => CreateSucceeds
          /\ (/\ form'.mounted
              /\ form'.signedTransaction # Null
              /\ ~(form.mounted /\ form.signedTransaction = form'.signedTransaction))
                => SignSucceeds(form'.signedTransaction)]_vars

\* the flow has been walked to its end: the form shows the signed form of
\* the payload it holds
C15_Witness ==
    /\ page.isWalletConnected
    /\ form.mounted
    /\ form.transactionPayload # Null
    /\ form.signedTransaction # Null
    /\ form.signedTransaction.status = "signed"
    /\ form.signedTransaction.nearAccountId = page.accountId
    /\ form.signedTransaction.unsignedTxHex = form.transactionPayload.unsignedTxHex

\* what deriveAddressFromNearAccount gives for the account and the path the
\* form has now
CurrentDerivation ==
    deriveAddressFromNearAccount(<<formAccountId(page), form.derivationPath>>, FALSE).value

(* C16: after the connected account or the derivation path has changed,    *)
(* once no derivation is pending the form shows the address and the public *)
(* key of deriveAddressFromNearAccount(current account, current path),     *)
(* never those of an earlier account or path, and isLoading is false when  *)
(* the last pending derivation completes.                                  *)
C16_AddressFollowsInputs ==
    /\ []((form.mounted /\ microtasks = <<>>) =>
             /\ form.bitcoinAddress = CurrentDerivation.address
             /\ form.bitcoinPublicKey = CurrentDerivation.publicKey)
    /\ [][(microtasks # <<>> /\ microtasks' = <<>> /\ form'.mounted)
              => ~form'.isLoading]_vars

\* bob.near connected after alice.near, the path changed to bitcoin-2, the
\* derivations done
C16_Witness ==
    /\ form.mounted
    /\ microtasks = <<>>
    /\ page.accountId = "bob.near"
    /\ form.derivationPath = "bitcoin-2"
    /\ form.bitcoinAddress = "bc1qsha256(bob.near:bitcoin-2)[0,20)"
    /\ form.bitcoinPublicKey = "sha256(bob.near:bitcoin-2)"
    /\ ~form.isLoading

\* this step is the completion of a signing
SigningCompletes ==
    /\ Len(tasks') = Len(tasks) - 1
    /\ \E i \in DOMAIN tasks : tasks[i].kind = "signTransaction"

UnsupportedAction ==
    /\ "action" \in DOMAIN request
    /\ request.action \notin {"transfer", "etch_rune", "transfer_rune"}

(* C18: a request whose action is present and is none of transfer,         *)
(* etch_rune and transfer_rune is answered 400 by route.ts, with an error  *)
(* body and no transactionPayload, and no transaction constructor is       *)
(* called; when it passes the three early checks the error names the       *)
(* action.                                                                 *)
C18_UnsupportedActionRejected ==
    (HandledByRoute /\ UnsupportedAction) =>
        /\ Rejected400
        /\ response.status # 200
        /\ ~ConstructorInvoked
        /\ (AccountAvailable /\ request.action # "" /\ Truthy(request, "receiver"))
              => response.body.error = "Unsupported action: " \o request.action

\* an unsupported action with everything a rune transfer would need
C18_Witness ==
    /\ HandledByRoute
    /\ UnsupportedAction
    /\ request.action = "mint"
    /\ AccountAvailable
    /\ Truthy(request, "receiver") /\ Truthy(request, "amount")
    /\ Truthy(request, "runeTicker") /\ Truthy(request, "runeAmount")
    /\ Rejected400
    /\ response.body.error = "Unsupported action: mint"
    /\ calls = <<"deriveAddressFromNearAccount">>

\* the request passes the three early checks of route.ts
PassesEarlyChecks ==
    AccountAvailable /\ Truthy(request, "action") /\ Truthy(request, "receiver")

\* the answer is a 400 with this message
RejectedWith(message) == Rejected400 /\ response.body.error = message

(* C19: route.ts reports the first failing check in the order account ID,  *)
(* action, receiver, fields of the action: a request that fails a check    *)
(* and passes the ones before it gets that check's message, whatever else  *)
(* it lacks; the address is derived only for requests that pass the first  *)
(* three checks, and then before the fields of the action are looked at.   *)
(* In both route files a request without receiver gets the receiver error  *)
(* whatever action fields it lacks (in route.ts: once account and action   *)
(* are there).                                                             *)
C19_ValidationPrecedence ==
    /\ HandledByRoute =>
          /\ ~AccountAvailable =>
                (RejectedWith("NEAR account ID is required") /\ calls = <<>>)
          /\ (AccountAvailable /\ ~Truthy(request, "action")) =>
                (RejectedWith("Action is required") /\ calls = <<>>)
          /\ (AccountAvailable /\ Truthy(request, "action")
                 /\ ~Truthy(request, "receiver")) =>
                (RejectedWith("Receiver address is required") /\ calls = <<>>)
          /\ (PassesEarlyChecks /\ actionError(request) # "") =>
                /\ RejectedWith(actionError(request))
                /\ calls = <<"deriveAddressFromNearAccount">>
          /\ PassesEarlyChecks <=> (calls # <<>>)
    /\ (pc = "done" /\ entry = "GET_part_002" /\ ~Truthy(request, "receiver")) =>
          (RejectedWith("Receiver address is required") /\ calls = <<>>)

\* receiver and amount both missing: the receiver error, and no derivation
C19_Witness ==
    /\ HandledByRoute
    /\ AccountAvailable
    /\ Truthy(request, "action") /\ request.action = "transfer_rune"
    /\ "receiver" \notin DOMAIN request
    /\ "amount" \notin DOMAIN request
    /\ "runeTicker" \notin DOMAIN request
    /\ RejectedWith("Receiver address is required")
    /\ calls = <<>>

\* one of the two transfer constructors has been called directly
TransferConstructed ==
    /\ pc = "done"
    /\ entry \in {"createBitcoinTransferTransaction", "createTransferRuneTransaction"}

\* the satoshis of a finite amount by its size: the amount times 10^8 below
\* 1, its whole part from 1 on
SatoshisByMagnitude(a) == IF a.int < 1 THEN a.int * E8 + a.frac ELSE a.int

(* C20: createBitcoinTransferTransaction and createTransferRuneTransaction *)
(* both put floor(amount * 100000000) in amountSatoshis for a finite       *)
(* amount below 1 and floor(amount) for one from 1 on, and for every       *)
(* finite amount that is not negative amountSatoshis is a whole number     *)
(* that is not negative.                                                   *)
C20_SatoshisByMagnitude ==
    (TransferConstructed /\ ~request.amount.nan) =>
        /\ response.amountSatoshis = Num(SatoshisByMagnitude(request.amount))
        /\ request.amount.int >= 0 =>
              /\ ~response.amountSatoshis.nan
              /\ response.amountSatoshis.frac = 0
              /\ response.amountSatoshis.int >= 0

\* 0.99999999 given to the rune transfer: 99999999 satoshis
C20_Witness ==
    /\ TransferConstructed
    /\ entry = "createTransferRuneTransaction"
    /\ request.amount = Dec(0, 99999999)
    /\ response.amountSatoshis = Num(99999999)
    /\ response.type = "rune_transfer"

\* createBitcoinTransactionPayload, of either service file, has returned
PayloadBuilt ==
    /\ pc = "done"
    /\ entry \in {"createBitcoinTransactionPayload",
                  "createBitcoinTransactionPayload_part_001"}

\* the value of the input the transaction spends
InputValue ==
    IF "utxo" \in DOMAIN request THEN request.utxo.value
    ELSE Plus(request.amountSatoshis, Num(1000))

(* C21: in the transaction createBitcoinTransactionPayload returns, the    *)
(* first output pays amountSatoshis to toAddress, the second returns the   *)
(* change to fromAddress, and payment + change + 1000 is the value of the  *)
(* input; an OP_RETURN output is there exactly when a non-empty            *)
(* opReturnHex was given, and its value is 0; when no utxo is given the    *)
(* change is 0.                                                            *)
C21_ValueConserved ==
    PayloadBuilt =>
        LET outputs == response.transactionPayload.outputs
        IN  /\ outputs[1].value = request.amountSatoshis
            /\ outputs[1].scriptPubKey = [address |-> request.toAddress]
            /\ outputs[2].scriptPubKey = [address |-> request.fromAddress]
            /\ Plus(Plus(outputs[1].value, outputs[2].value), Num(1000)) = InputValue
            /\ Len(outputs) = IF Truthy(request, "opReturnHex") THEN 3 ELSE 2
            /\ Len(outputs) = 3 => outputs[3].value = Num(0)
            /\ "utxo" \notin DOMAIN request => outputs[2].value = Num(0)

\* an input of 20000 spent on 546 satoshis and an OP_RETURN: 18454 of change
C21_Witness ==
    /\ PayloadBuilt
    /\ "utxo" \in DOMAIN request /\ request.utxo.value = Num(20000)
    /\ request.amountSatoshis = Num(546)
    /\ Len(response.transactionPayload.outputs) = 3
    /\ response.transactionPayload.outputs[2].value = Num(18454)
    /\ response.transactionPayload.outputs[3].value = Num(0)

\* the restore effect is about to run with a saved account and no connection
RestorePending ==
    connector.effect /\ storage # "" /\ ~page.isWalletConnected

(* C22: when NearWalletConnector's effect is pending with a saved          *)
(* nearAccountId in storage and the wallet not connected, the next thing   *)
(* that happens is the connection with exactly that account, storage       *)
(* untouched, and it does happen; with nothing saved the wallet gets       *)
(* connected only by the user's answer to the prompt.                      *)
C22_RestoredOnMount ==
    /\ [][RestorePending =>
              /\ page' = handleConnect(storage)
              /\ storage' = storage]_vars
    /\ [][(~page.isWalletConnected /\ storage = "" /\ page'.isWalletConnected) =>
              /\ Settled
              /\ page'.accountId \in Accounts
              /\ storage' = page'.accountId]_vars
    /\ \A saved \in SavedAccounts \ {""} :
          (RestorePending /\ storage = saved)
              ~> (page = handleConnect(saved) /\ storage = saved)

\* the saved account has been restored and the form is shown for it
C22_Witness ==
    /\ Settled
    /\ page = handleConnect("alice.near")
    /\ storage = "alice.near"
    /\ form.mounted
    /\ form.bitcoinAddress
          = derivation("fetchAddress", "alice.near", "bitcoin-1").value.address

(* C23: whenever the wallet is connected, with account X, storage holds    *)
(* nearAccountId = X; and a step that disconnects the wallet leaves        *)
(* storage without a nearAccountId.                                        *)
C23_StorageAgrees ==
    /\ [](page.isWalletConnected =>
             (page.accountId # "" /\ storage = page.accountId))
    /\ [][(page.isWalletConnected /\ ~page'.isWalletConnected) => storage' = ""]_vars

\* connected with the account typed into the prompt, which is the one stored
C23_Witness ==
    /\ Settled
    /\ page = handleConnect("bob.near")
    /\ storage = "bob.near"

\* this step is the click on Disconnect
Disconnects == page.isWalletConnected /\ ~page'.isWalletConnected

(* C24: the click on Disconnect leaves the page disconnected with no       *)
(* account, nothing saved and the restore effect due to run again; that    *)
(* run, like every run of the effect with nothing saved, changes nothing   *)
(* of the page; and from a disconnected page with nothing saved only the   *)
(* user's answer to the prompt connects the wallet.                        *)
C24_DisconnectStays ==
    /\ [][Disconnects =>
              /\ page' = handleDisconnect
              /\ storage' = ""
              /\ connector'.effect
              /\ ~form'.mounted]_vars
    /\ [][(connector.effect /\ ~page.isWalletConnected /\ storage = "") =>
              /\ page' = page
              /\ storage' = ""
              /\ ~connector'.effect]_vars
    /\ [][(~page.isWalletConnected /\ storage = "" /\ page'.isWalletConnected) =>
              (~connector.effect /\ storage' # "")]_vars

\* disconnected, nothing saved, and the effect has run again
C24_Witness ==
    /\ ~connector.effect
    /\ page = handleDisconnect
    /\ storage = ""
    /\ ~form.mounted
    /\ tasks = <<>>

(* C25: on the page isWalletConnected is true exactly when accountId is    *)
(* defined; a step that connects sets both, to an account the user typed   *)
(* or the one that was saved, and a step that disconnects clears both.     *)
C25_ConnectedIffAccount ==
    /\ [](page.isWalletConnected <=> page.accountId # "")
    /\ [][(~page.isWalletConnected /\ page'.isWalletConnected) =>
              /\ page.accountId = ""
              /\ page'.accountId \in Accounts \cup SavedAccounts
              /\ page'.accountId # ""]_vars
    /\ [][(page.isWalletConnected /\ ~page'.isWalletConnected) =>
              /\ page.accountId # ""
              /\ page'.accountId = ""]_vars

\* connected, with the account given to the form
C25_Witness ==
    /\ page.isWalletConnected
    /\ page.accountId = "bob.near"
    /\ form.mounted
    /\ formAccountId(page) = "bob.near"

\* the answers with which the request of task t fails: fetch throws (Null),
\* or the route answers with a status that is not OK
FailedAnswers(t) ==
    IF t.kind # "createTransaction" THEN {}
    ELSE {Null} \cup {r \in {GETResult(t.url, now, NoFault).response : now \in Times} :
                         r.status \notin 200..299}

\* this step is the catch and finally of a createTransaction whose request
\* failed with the answer resp
CreateFails(resp) ==
    /\ form.mounted
    /\ \E i \in DOMAIN tasks :
          /\ tasks[i].kind = "createTransaction"
          /\ resp \in FailedAnswers(tasks[i])
          /\ tasks' = Without(tasks, i)
    /\ form' = afterFetch(form, resp)

\* err.message || 'An error occurred', for the failure with answer resp
FailureMessage(resp) ==
    IF resp = Null THEN "Failed to fetch"
    ELSE IF "error" \in DOMAIN resp.body /\ resp.body.error # "" THEN resp.body.error
    ELSE "Failed to create transaction"

(* C26: after the step in which a create request fails, the form holds the *)
(* error message of the failure, no transactionPayload, no                 *)
(* signedTransaction, is not loading, and no callback has been called.     *)
C26_FailureLeavesNothing ==
    [][\A resp \in UNION {FailedAnswers(tasks[i]) : i \in DOMAIN tasks} :
          CreateFails(resp) =>
              /\ form'.error = FailureMessage(resp)
              /\ form'.transactionPayload = Null
              /\ form'.signedTransaction = Null
              /\ ~form'.isLoading
              /\ notified' = <<>>]_vars

\* what does hold after the failing step: the message of the failure is
\* shown, the form is not loading, and no callback has been called
C26_FailureReported ==
    [][\A resp \in UNION {FailedAnswers(tasks[i]) : i \in DOMAIN tasks} :
          CreateFails(resp) =>
              /\ form'.error = FailureMessage(resp)
              /\ ~form'.isLoading
              /\ notified' = <<>>]_vars

\* the signed forms of payload p for account a
SignedForms(p, a) ==
    {signedTx([transactionPayload |-> p, nearAccountId |-> a], now) : now \in Times}

(* C27: whenever the form holds a signed transaction, it holds a payload   *)
(* too, and the signed transaction is the signed form of that payload.     *)
C27_SignedIsCurrentPayload ==
    (form.mounted /\ form.signedTransaction # Null) =>
        /\ form.transactionPayload # Null
        /\ form.signedTransaction
              \in SignedForms(form.transactionPayload, formAccountId(page))

\* what does hold: a signed transaction the form holds is the signed form
\* of a payload the route returned for this account, current or not
C27_SignedIsSomePayload ==
    (form.mounted /\ form.signedTransaction # Null) =>
        /\ form.signedTransaction.status = "signed"
        /\ form.signedTransaction.nearAccountId = formAccountId(page)
        /\ form.signedTransaction.type \in {"bitcoin_transfer", "rune_etch"}
        /\ form.signedTransaction.senderAddress
              \in {derivation("fetchAddress", formAccountId(page), d).value.address :
                     d \in {"bitcoin-1", "bitcoin-2"}}

\* the create requests in flight
CreatesInFlight == SelectSeq(tasks, LAMBDA t : t.kind = "createTransaction")

(* C28: while a create request of the form is in flight the form is        *)
(* loading, so that its Create Transaction button is disabled, and no      *)
(* second request is in flight beside it.                                  *)
C28_LoadingWhileInFlight ==
    (form.mounted /\ CreatesInFlight # <<>>) =>
        /\ form.isLoading
        /\ ~CreateEnabled
        /\ Len(CreatesInFlight) = 1

\* what does hold: a click on Create Transaction sets isLoading, and while
\* requests are in flight only the continuation of fetchAddress resets it
C28_ResetOnlyByFetchAddress ==
    [][(form.mounted /\ form'.mounted /\ CreatesInFlight # <<>>
          /\ Len(tasks') >= Len(tasks) /\ form.isLoading /\ ~form'.isLoading)
         => (microtasks # <<>> /\ Head(microtasks).fn = "fetchAddress")]_vars

\* the fields signTransaction writes itself
SignerFields == {"signature", "status", "nearAccountId"}

\* stx is payload p signed for account a: the three fields of the signer,
\* and every other field of p as it is in p, and nothing else
IsSignedFormOf(stx, p, a) ==
    /\ DOMAIN stx = DOMAIN p \cup SignerFields
    /\ stx.status = "signed"
    /\ stx.nearAccountId = a
    /\ stx.signature \in {"simulated_near_signature_" \o toString(Num(now), 10) :
                             now \in Times}
    /\ \A field \in DOMAIN p \ SignerFields : stx[field] = p[field]

(* C29: when a signing completes on the page, the signed transaction given *)
(* to the form is the payload the signing was started with, with status    *)
(* 'signed', a signature and the connected account as nearAccountId, every *)
(* other field unchanged; and it is what the form then holds.              *)
C29_SignedFrame ==
    [][(/\ form.mounted /\ form'.mounted
        /\ Len(tasks') = Len(tasks) - 1
        /\ Len(CreatesInFlight) = Len(SelectSeq(tasks', LAMBDA t :
                                          t.kind = "createTransaction"))) =>
          /\ Len(notified') = 1
          /\ page.isWalletConnected /\ page' = page
          /\ form'.signedTransaction = notified'[1]
          /\ \E i \in DOMAIN tasks :
                /\ tasks[i].kind = "signTransaction"
                /\ tasks[i].transactionPayload # Null
                /\ IsSignedFormOf(notified'[1], tasks[i].transactionPayload,
                                  page.accountId)]_vars

\* bob's transfer of 10000 satoshis, signed
C29_Witness ==
    /\ Len(notified) = 1
    /\ form.mounted
    /\ form.signedTransaction = notified[1]
    /\ page.accountId = "bob.near"
    /\ notified[1].nearAccountId = "bob.near"
    /\ notified[1].status = "signed"
    /\ notified[1].type = "bitcoin_transfer"
    /\ notified[1].amountSatoshis = Num(10000)
    /\ notified[1].receiverAddress = "bc1qreceiver"

====
